---- MODULE Spec2Model ----
(***************************************************************************)
(* HouseSprinkler: the zone activation queue (housesprinkler_zone.c), the  *)
(* program table and its periodic evaluation (housesprinkler_program.c),   *)
(* the schedule evaluation (housesprinkler_schedule.c), the feed chain     *)
(* (housesprinkler_feed.c), the control points (housesprinkler_control.c)  *)
(* and the main loop that drives them (housesprinkler.c).                  *)
(*                                                                         *)
(* Time is the wall clock in seconds.  The simulated clock is off          *)
(* (SprinklerSimStart = 0), so sprinkler_schedulingtime(now) = now and     *)
(* time(0) inside a handler is the second the handler runs in.  The local  *)
(* time zone is UTC.                                                       *)
(***************************************************************************)
EXTENDS Integers, Sequences, FiniteSets, TLC

-----------------------------------------------------------------------------
(* Bounds of the model.                                                    *)

\* Number of seconds the clock advances after startup.
MaxTicks == 7

\* Largest total runtime a queue entry may accumulate.
MaxRuntime == 3

\* Number of HTTP requests the service receives.
MaxRequests == 3

\* Most replies that a control point is recorded to wait for.
MaxPending == 1

\* Number of days the interval of a schedule is followed over.
MaxDays == 6

\* Number of seconds the persistent state is followed over.
MaxSeconds == 12

\* Number of state texts that the depot publishes.
MaxPublications == 2

-----------------------------------------------------------------------------
(* The clock.                                                              *)

Day == 86400

\* Startup second: 05:59:57 on day 10 (a Sunday: 1970-01-11).
StartTime == (10 * Day) + (6 * 3600) - 3

Hour(t) == (t % Day) \div 3600
Minute(t) == (t % 3600) \div 60
\* tm_wday: 1970-01-01 was a Thursday (4).
WeekDay(t) == ((t \div Day) + 4) % 7

Max(a, b) == IF a > b THEN a ELSE b

-----------------------------------------------------------------------------
(* Configuration.                                                          *)

\* The zone tables the configuration may hold (.zones).
ZoneTables ==
    { << [name |-> "lawn",  pulse |-> 1, pause |-> 3, manual |-> FALSE],
         [name |-> "slope", pulse |-> 0, pause |-> 0, manual |-> FALSE] >>,
      << [name |-> "lawn",  pulse |-> 1, pause |-> 3, manual |-> FALSE],
         [name |-> "drip",  pulse |-> 0, pause |-> 0, manual |-> TRUE] >> }

ZoneNames == {"lawn", "slope", "drip"}

\* The "pause" item of the configuration (index valve pause), as loaded.
ConfigPause == 0

\* The pulse parameter values of the /sprinkler/zone/on requests.
ZoneOnPulses == {1, 2}

\* The amount parameter values of the /sprinkler/raindelay requests.
RainAmounts == {0, 3, 60}

VARIABLES
    now,                \* time(0)
    LastCall,           \* hs_background: second of the latest call
    DelayConfigDiscovery,
    Zones,              \* zone table: name, pulse, pause, manual
    ZoneStatus,         \* Zones[i].status
    ZoneServer,         \* Zones[i].server: 0, or the index of the server
    ServerStatus,       \* Servers[i].status
    Queue,              \* Queue[0 .. QueueNext-1]
    ZoneActive,         \* housesprinkler_zone_schedule: static ZoneActive
    ZonesBusy,          \* housesprinkler_zone_schedule: static ZonesBusy
    starting,           \* housesprinkler_zone_discovery: static starting
    latestdiscovery,    \* housesprinkler_zone_discovery: static
    ZoneRequests,       \* start requests submitted, reply not yet delivered
    ServerRequests,     \* discovery requests submitted, reply not delivered
    ZoneLastOn,         \* history: latest successful start of each zone
    Dispatched,         \* history: the latest call to housesprinkler_zone_start
    ProgramRunning,     \* Programs[i].running
    ProgramLastlaunch,  \* Programs[i].lastlaunch
    ProgramLastMinute,  \* housesprinkler_program_periodic: lasthour, lastminute
    ProgramLaunched,    \* history: latest launch of each program by a periodic
    ProgramIndex,       \* the online index handed over by the index module
    ProgramIndexTimestamp,
    SprinklerIndex,     \* housesprinkler_index.c: the current watering index,
    SprinklerIndexTimestamp,    \* when it was received
    SprinklerIndexOrigin,       \* and from which server (0: none)
    IndexServers,       \* housesprinkler_index.c, Servers: adjust of each
    SprinklerOn,
    RainDelayEnabled,
    RainDelay,
    OneTimeSchedules,   \* program and start of every entry
    ScheduleLastlaunch, \* Schedules[i].lastlaunch
    ScheduleLastMinute, \* housesprinkler_schedule_periodic: lasthour, lastminute
    Requests,           \* number of requests and calls served so far
    LastRequest,        \* history: the latest HTTP request or call served
    Feed,               \* Feed[0 .. FeedCount-1]
    feedName,           \* housesprinkler_feed_activate: name
    feedPrevious,       \* housesprinkler_feed_activate: previous
    feedLoop,           \* housesprinkler_feed_activate: loop
    feedPc,             \* housesprinkler_feed_activate: "loop" or "done"
    feedVisits,         \* history: feeds found by the activation
    feedStarts,         \* history: feeds given to housesprinkler_control_start
    feedPulse,          \* housesprinkler_feed_activate: pulse
    Controls,           \* Controls[0 .. ControlsCount-1]
    ControlsActive,     \* static ControlsActive
    ControlRequests,    \* start and stop requests submitted, reply not yet
                        \* delivered, for each control
    ControlDiscovery,   \* housesprinkler_control_discover: latestdiscovery,
                        \* and the status requests submitted
    ControlStarted,     \* history: latest start of each control since the
                        \* latest housesprinkler_control_cancel
    ControlStopped,     \* history: the controls that the latest
                        \* housesprinkler_control_cancel sent state=off for
    StateDataHasChanged,    \* second of the first unsaved change, or 0
    ShareStateData,         \* housesprinkler_state_share
    BackupInText,           \* the text of the state in memory
    BackupOutBuffer,        \* the characters of the output buffer
    BackupOutBufferSize,
    BackupFile,             \* the content of the local state file
    StateSaved,             \* history: the latest call to
                            \* housesprinkler_state_save
    ConfiguredInterval,     \* the .interval item of each schedule
    ScheduleInterval,       \* Schedules[i].interval
    ConfigText,             \* the configuration text in memory
    ConfigParsed,           \* the tokens: the text they were parsed from,
                            \* and whether the parser found an error
    ConfigFile,             \* the content of the configuration file
    ZoneActiveFreed,        \* ZoneActive points into a zone table that
                            \* housesprinkler_zone_refresh has freed
    ZoneRequestsFreed,      \* so does the origin of a start request whose
                            \* reply was not delivered yet, for each zone
    LastReply,              \* history: the latest reply to a start request
                            \* of a zone, where replies are recorded
    ZonePulses,             \* history: the activations of each zone and
                            \* the pulses it was started for, where the
                            \* starts are recorded
    RestoreLoop             \* housesprinkler_schedule_restore: the element
                            \* (1-based) of .once that its loop stays at,
                            \* 0 when the program is not in that loop

clockVars == << now, LastCall, DelayConfigDiscovery >>

discoveryVars == << ZoneServer, ServerStatus, starting, latestdiscovery,
                    ServerRequests >>

scheduleVars == << ZoneActive, ZonesBusy, ZoneRequests, ZoneLastOn,
                   Dispatched >>

programVars == << ProgramRunning, ProgramLastlaunch, ProgramLastMinute,
                  ProgramLaunched >>

switchVars == << SprinklerOn, RainDelayEnabled, RainDelay >>

onetimeVars == << OneTimeSchedules, ScheduleLastlaunch, ScheduleLastMinute >>

indexVars == << ProgramIndex, ProgramIndexTimestamp, SprinklerIndex,
               SprinklerIndexTimestamp, SprinklerIndexOrigin, IndexServers >>

feedVars == << Feed, feedName, feedPrevious, feedLoop, feedPc, feedVisits,
               feedStarts, feedPulse >>

controlVars == << Controls, ControlsActive, ControlRequests, ControlDiscovery,
                  ControlStarted, ControlStopped >>

stateVars == << StateDataHasChanged, ShareStateData, BackupInText,
               BackupOutBuffer, BackupOutBufferSize, BackupFile, StateSaved >>

intervalVars == << ConfiguredInterval, ScheduleInterval >>

configVars == << ConfiguredInterval, ScheduleInterval, ConfigText,
                ConfigParsed, ConfigFile, ZoneActiveFreed,
                ZoneRequestsFreed, LastReply, ZonePulses, RestoreLoop >>

vars == << now, LastCall, DelayConfigDiscovery, Zones, ZoneStatus, ZoneServer,
           ServerStatus, Queue, ZoneActive, ZonesBusy, starting,
           latestdiscovery, ZoneRequests, ServerRequests, ZoneLastOn,
           Dispatched, ProgramRunning, ProgramLastlaunch, ProgramLastMinute,
           ProgramLaunched, SprinklerOn, RainDelayEnabled, RainDelay,
           OneTimeSchedules, ScheduleLastlaunch, ScheduleLastMinute,
           Requests, LastRequest, Feed, feedName, feedPrevious, feedLoop,
           feedPc, feedVisits, feedStarts, feedPulse, Controls,
           ControlsActive, ControlRequests, ControlDiscovery, ControlStarted,
           ControlStopped,
           ProgramIndex, ProgramIndexTimestamp, SprinklerIndex,
           SprinklerIndexTimestamp, SprinklerIndexOrigin, IndexServers,
           StateDataHasChanged, ShareStateData, BackupInText,
           BackupOutBuffer, BackupOutBufferSize, BackupFile, StateSaved,
           ConfiguredInterval, ScheduleInterval, ConfigText, ConfigParsed,
           ConfigFile, ZoneActiveFreed, ZoneRequestsFreed, LastReply,
           ZonePulses, RestoreLoop >>

ZonesCount == Len(Zones)
ServersCount == 1
QueueNext == Len(Queue)

ZoneIndex == 1 .. ZonesCount

\* housesprinkler_zone_refresh: ZoneIndexValvePause is at least 1.
ZoneIndexValvePause == IF ConfigPause < 1 THEN 1 ELSE ConfigPause

NoStart == [at |-> 0, pulse |-> 0]

\* The origin of the runtime a /sprinkler/zone/on request adds.
ZoneRequest == [program |-> "", manual |-> TRUE]

\* 0 when no zone has that name, else its index (C: -1, else 0-based index).
housesprinkler_zone_search(name) ==
    IF \E i \in ZoneIndex : Zones[i].name = name
    THEN CHOOSE i \in ZoneIndex :
            /\ Zones[i].name = name
            /\ \A j \in ZoneIndex : Zones[j].name = name => i <= j
    ELSE 0

\* The position of the zone's entry in the live part of the queue, or 0.
QueuePosition(Q, zone) ==
    IF \E i \in 1 .. Len(Q) : Q[i].zone = zone
    THEN CHOOSE i \in 1 .. Len(Q) :
            /\ Q[i].zone = zone
            /\ \A j \in 1 .. Len(Q) : Q[j].zone = zone => i <= j
    ELSE 0

\* A variant that creates an entry without a look at the entries queued.
ActivateWithoutSearch(Q, name, pulse, manual, origin, t) ==
    IF Len(Q) < ZonesCount
    THEN LET zone == housesprinkler_zone_search(name) IN
         IF zone >= 1 /\ ~(Zones[zone].manual /\ ~manual)
         THEN Append(Q, [zone |-> zone, runtime |-> pulse,
                         nexton |-> t, origins |-> {origin}])
         ELSE Q
    ELSE Q

\* housesprinkler_zone_activate (name, pulse, manual) called at second t on
\* queue Q.  The origins field is history only (who put runtime into the
\* entry: a zone request, or a program started by hand or by a periodic
\* evaluation); no operation reads it.
housesprinkler_zone_activate(Q, name, pulse, manual, origin, t) ==
    IF Len(Q) < ZonesCount
    THEN LET zone == housesprinkler_zone_search(name) IN
         IF zone >= 1
         THEN IF Zones[zone].manual /\ ~manual
              THEN Q
              ELSE LET i == QueuePosition(Q, zone) IN
                   IF i >= 1
                   THEN [Q EXCEPT ![i].runtime = @ + pulse,
                                  ![i].nexton = IF @ = 0 THEN t ELSE @,
                                  ![i].origins = @ \cup {origin}]
                   ELSE Append(Q, [zone |-> zone, runtime |-> pulse,
                                   nexton |-> t, origins |-> {origin}])
         ELSE Q
    ELSE Q

\* housesprinkler_zone_stop: every live entry gets runtime 0, then the queue
\* is emptied (QueueNext = 0).  Entries past QueueNext are never read again:
\* activate rewrites all three fields of a new entry.
housesprinkler_zone_stop(Q) == << >>

\* A variant that prunes no entry.
PruneNothing(Q, t) == Q

\* The pruning loop at the start of housesprinkler_zone_schedule.
RECURSIVE Prune(_, _)
Prune(Q, t) ==
    IF Len(Q) > 0 /\ Q[Len(Q)].runtime = 0 /\ Q[Len(Q)].nexton < t
    THEN Prune(SubSeq(Q, 1, Len(Q) - 1), t)
    ELSE Q

\* A variant that lets the scheduler go on at the last busy second.
ZoneBusyBefore(t, busy) == t < busy

\* The zone scheduler may not start anything at second t.
ZoneBusyAt(t, busy) == t <= busy

\* "Search for the first zone to be started next": the entry a scan with
\* nexttime = t + 1 ends on, or 0.
Eligible(Q, i, t) ==
    /\ Q[i].runtime # 0
    /\ Q[i].nexton > 0
    /\ Q[i].nexton < t + 1

NextEntry(Q, t) ==
    IF \E i \in 1 .. Len(Q) : Eligible(Q, i, t)
    THEN CHOOSE i \in 1 .. Len(Q) :
            /\ Eligible(Q, i, t)
            /\ \A j \in 1 .. Len(Q) : Eligible(Q, j, t) =>
                  \/ Q[i].nexton < Q[j].nexton
                  \/ (Q[i].nexton = Q[j].nexton /\ i <= j)
    ELSE 0

\* A variant that gives the entry all of its runtime at once.
PulseWhole(e) == e.runtime

\* The length of the pulse given to queue entry e.
PulseOf(e) ==
    LET pulse == Zones[e.zone].pulse IN
    IF pulse = 0 \/ e.runtime <= pulse THEN e.runtime ELSE pulse

\* The entry after its pulse was taken at second t.
NextOn(e, t) == t + PulseOf(e) + Zones[e.zone].pause

AfterPulse(e, t) ==
    [e EXCEPT !.runtime = e.runtime - PulseOf(e),
              !.nexton = NextOn(e, t)]

\* housesprinkler_zone_schedule (t).  sockok: echttp_client() could open the
\* connection.  The result is the zone state after the call.
\* When ZoneActive points into a table that was freed, what the code reads
\* and writes through it is undefined: aliased tells whether the memory is
\* now the record of the same index in the current table (the status that
\* is read and written is that zone's) or any other memory (nothing that
\* the model holds is read or written).
housesprinkler_zone_schedule(t, sockok, aliased) ==
    LET pruned == Prune(Queue, t)
        idle == [Queue |-> pruned, ZoneStatus |-> ZoneStatus,
                 ZoneActive |-> ZoneActive, ZonesBusy |-> ZonesBusy,
                 ZoneRequests |-> ZoneRequests, ZoneLastOn |-> ZoneLastOn,
                 Dispatched |-> Dispatched,
                 ZoneActiveFreed |-> ZoneActiveFreed]
    IN
    IF ZoneBusyAt(t, ZonesBusy) THEN idle
    ELSE
      LET status1 == IF /\ ZoneActive # 0
                        /\ (ZoneActiveFreed => aliased)
                        /\ ZoneStatus[ZoneActive] = "a"
                     THEN [ZoneStatus EXCEPT ![ZoneActive] = "i"]
                     ELSE ZoneStatus
          nextzone == NextEntry(pruned, t)
      IN
      IF nextzone = 0
      THEN [idle EXCEPT !.ZoneStatus = status1, !.ZoneActive = 0,
                        !.ZoneActiveFreed = FALSE]
      ELSE
        LET e == pruned[nextzone]
            zone == e.zone
            pulse == PulseOf(e)
            started == ZoneServer[zone] # 0 /\ sockok
            queue1 == [pruned EXCEPT ![nextzone] = AfterPulse(e, t)]
            log == [zone |-> zone, at |-> t, pulse |-> pulse,
                    ok |-> started, origins |-> e.origins]
        IN
        IF started
        THEN [Queue |-> queue1, ZoneStatus |-> status1,
              ZoneActive |-> zone,
              ZonesBusy |-> t + pulse + ZoneIndexValvePause,
              ZoneRequests |-> [ZoneRequests EXCEPT ![zone] = @ + 1],
              ZoneLastOn |-> [ZoneLastOn EXCEPT
                                 ![zone] = [at |-> t, pulse |-> pulse]],
              Dispatched |-> log, ZoneActiveFreed |-> FALSE]
        ELSE [Queue |-> queue1, ZoneStatus |-> status1,
              ZoneActive |-> 0, ZonesBusy |-> ZonesBusy,
              ZoneRequests |-> ZoneRequests, ZoneLastOn |-> ZoneLastOn,
              Dispatched |-> log, ZoneActiveFreed |-> FALSE]


\* housesprinkler_zone_discovery (t): every server is asked for its status
\* when a scan is due.  sockok: echttp_client() could open the connection.
housesprinkler_zone_discovery(t, sockok) ==
    LET start1 == IF starting = 0 THEN t ELSE starting
        scan == /\ t - latestdiscovery > 15
                /\ (t - latestdiscovery > 120 \/ t - start1 < 120)
    IN
    IF scan
    THEN [starting |-> start1, latestdiscovery |-> t,
          ServerStatus |-> IF sockok THEN ServerStatus
                           ELSE [i \in 1 .. ServersCount |-> "f"],
          ServerRequests |-> IF sockok THEN ServerRequests + 1
                             ELSE ServerRequests]
    ELSE [starting |-> start1, latestdiscovery |-> latestdiscovery,
          ServerStatus |-> ServerStatus, ServerRequests |-> ServerRequests]

\* The status housesprinkler_zone_controlled leaves in the zone for a reply
\* that is not a redirect: the last assignment is not conditional.
ControlledStatus(old, status) ==
    LET afterTest == IF status # 200 THEN "e" ELSE old IN "a"

-----------------------------------------------------------------------------
(* Control points (housesprinkler_control.c).                              *)

\* The only control server that answers discovery.
ControlProvider == "relay"

ControlsCount == Len(Controls)

ControlIndex == 1 .. ControlsCount

NoControlStart == [at |-> 0, pulse |-> 0, n |-> 0]

\* The index of the first control with that name, 0 if there is none.
housesprinkler_control_search(name) ==
    LET found == {i \in ControlIndex : Controls[i].name = name} IN
    IF found = {} THEN 0
    ELSE CHOOSE i \in found : \A j \in found : i <= j

\* housesprinkler_control_declare for every item of a feed table, in the
\* order of the table, after housesprinkler_control_reset: a name is
\* declared once.
RECURSIVE ControlsDeclared(_, _)
ControlsDeclared(table, i) ==
    IF i = 0 THEN << >>
    ELSE LET before == ControlsDeclared(table, i - 1) IN
         IF \E k \in 1 .. Len(before) : before[k].name = table[i].name
         THEN before
         ELSE Append(before, [name |-> table[i].name, type |-> "FEED",
                              status |-> "u", deadline |-> 0, url |-> ""])

\* The control state right after the configuration was loaded.
ControlsLoaded(table) ==
    LET declared == ControlsDeclared(table, Len(table)) IN
    [Controls |-> declared,
     ControlsActive |-> FALSE,
     ControlRequests |-> [i \in 1 .. Len(declared) |-> 0],
     ControlStarted |-> [i \in 1 .. Len(declared) |-> NoControlStart],
     ControlStopped |-> << >>]

\* The control state as one record, for the operators below.
ControlState ==
    [Controls |-> Controls, ControlsActive |-> ControlsActive,
     ControlRequests |-> ControlRequests, ControlStarted |-> ControlStarted,
     ControlStopped |-> ControlStopped]

\* echttp_submit: one more reply to wait for.
Submitted(n) == IF n < MaxPending THEN n + 1 ELSE n

\* housesprinkler_control_start (name, pulse, context) at second t; sockok
\* is the outcome of echttp_client.  The events are log entries only.
housesprinkler_control_start(c, name, pulse, t, sockok) ==
    LET i == housesprinkler_control_search(name) IN
    IF i = 0 THEN c
    ELSE IF c.Controls[i].url = "" THEN c
    ELSE IF ~sockok THEN c
    ELSE [c EXCEPT !.ControlRequests[i] = Submitted(@),
                   !.Controls[i].deadline = t + pulse,
                   !.Controls[i].status = "a",
                   !.ControlsActive = TRUE,
                   !.ControlStarted[i] =
                       [at |-> t, pulse |-> pulse, n |-> 1 - @.n]]

\* housesprinkler_control_stop (control).
housesprinkler_control_stop(c, i, sockok) ==
    IF c.Controls[i].url = "" THEN c
    ELSE IF ~sockok THEN c
    ELSE [c EXCEPT !.ControlRequests[i] = Submitted(@),
                   !.Controls[i].status = "i",
                   !.ControlStopped = Append(@, c.Controls[i].name)]

\* The loop of housesprinkler_control_cancel (0), from control i; sockok[i]
\* is the outcome of echttp_client for control i.
RECURSIVE CancelScan(_, _, _)
CancelScan(c, i, sockok) ==
    IF i > Len(c.Controls) THEN c
    ELSE IF c.Controls[i].deadline # 0
         THEN CancelScan(
                 [housesprinkler_control_stop(c, i, sockok[i])
                     EXCEPT !.Controls[i].deadline = 0],
                 i + 1, sockok)
         ELSE CancelScan(c, i + 1, sockok)

\* housesprinkler_control_cancel (0): stop all the active controls.
housesprinkler_control_cancel(c, sockok) ==
    [CancelScan([c EXCEPT !.ControlStopped = << >>], 1, sockok)
        EXCEPT !.ControlsActive = FALSE,
               !.ControlStarted = [i \in DOMAIN @ |-> NoControlStart]]

\* A pulse that has reached its end needs no request.
ControlExpired(deadline, t) == deadline < t

\* The loop of housesprinkler_control_periodic, from control i.
RECURSIVE PeriodicScan(_, _, _)
PeriodicScan(c, i, t) ==
    IF i > Len(c.Controls) THEN c
    ELSE IF c.Controls[i].deadline # 0
         THEN IF ControlExpired(c.Controls[i].deadline, t)
              THEN PeriodicScan([c EXCEPT !.Controls[i].deadline = 0,
                                          !.Controls[i].status = "i"],
                                i + 1, t)
              ELSE PeriodicScan([c EXCEPT !.ControlsActive = TRUE],
                                i + 1, t)
         ELSE PeriodicScan(c, i + 1, t)

\* housesprinkler_control_discover (t): a scan every minute; d is the
\* record of latestdiscovery and of the status requests not yet answered.
housesprinkler_control_discover(d, t, sockok) ==
    IF t <= d.latestdiscovery + 60 THEN d
    ELSE [latestdiscovery |-> t,
          requests |-> IF sockok THEN Submitted(d.requests) ELSE d.requests]

\* housesprinkler_control_periodic (t), without the discovery.
housesprinkler_control_periodic(c, t) ==
    IF Len(c.Controls) <= 0 THEN c
    ELSE IF c.ControlsActive
         THEN PeriodicScan([c EXCEPT !.ControlsActive = FALSE], 1, t)
         ELSE c

-----------------------------------------------------------------------------
(* Programs (housesprinkler_program.c).                                    *)

SPRINKLER_SEASON_INVALID == 0
SPRINKLER_SEASON_WEEKLY == 1
SPRINKLER_SEASON_MONTHLY == 2

SPRINKLER_REPEAT_ONCE == 0
SPRINKLER_REPEAT_DAILY == 1
SPRINKLER_REPEAT_WEEKLY == 2

\* The season table (.seasons), indexed from 0 as in the code.
Seasons ==
    [i \in {0, 1, 2} |->
        IF i = 0
        THEN [name |-> "summer", unit |-> SPRINKLER_SEASON_MONTHLY,
              index |-> [m \in 0 .. 51 |-> 100]]
        ELSE IF i = 1
        THEN [name |-> "winter", unit |-> SPRINKLER_SEASON_MONTHLY,
              index |-> [m \in 0 .. 51 |-> 0]]
        ELSE [name |-> "spring", unit |-> SPRINKLER_SEASON_WEEKLY,
              index |-> [m \in 0 .. 51 |-> 50]]]

SeasonsCount == 3

\* The program table (.programs), indexed from 0 as in the code.  "front"
\* carries its own daily start time; "back" has no repeat item and is
\* started by the schedule table only.
Programs ==
    [i \in {0, 1} |->
        IF i = 0
        THEN [name |-> "front", enabled |-> TRUE, begin |-> 0, until |-> 0,
              hour |-> 6, minute |-> 0, repeat |-> SPRINKLER_REPEAT_DAILY,
              days |-> [d \in 0 .. 6 |-> FALSE], interval |-> 1, season |-> 0,
              zones |-> << [name |-> "lawn", runtime |-> 2],
                           [name |-> "slope", runtime |-> 1] >>]
        ELSE [name |-> "back", enabled |-> TRUE, begin |-> 0, until |-> 0,
              hour |-> 0, minute |-> 0, repeat |-> SPRINKLER_REPEAT_ONCE,
              days |-> [d \in 0 .. 6 |-> FALSE], interval |-> 0, season |-> 0,
              zones |-> << [name |-> "slope", runtime |-> 1] >>]]

ProgramsCount == 2
ProgramIndexSet == 0 .. (ProgramsCount - 1)
ProgramNames == {Programs[i].name : i \in ProgramIndexSet}

\* The online index before the index module has handed one over.
NoIndex == [ProgramIndex |-> 100, ProgramIndexTimestamp |-> 0]

\* The rain delay of the program module: nothing in the main program sets it.
ProgramRainEnabled == TRUE
ProgramRainDelay == 0

\* tm_mon and tm_yday; the model's clock stays within January 1970.
Month(t) == 0
YearDay(t) == t \div Day

Week(t) ==
    LET week == (YearDay(t) - WeekDay(t) + 4) \div 7 IN
    IF week < 0 THEN 51 ELSE IF week >= 52 THEN week - 52 ELSE week

\* The index of the season at second t.
SeasonValue(season, t) ==
    IF Seasons[season].unit = SPRINKLER_SEASON_WEEKLY
    THEN Seasons[season].index[Week(t)]
    ELSE IF Seasons[season].unit = SPRINKLER_SEASON_MONTHLY
         THEN Seasons[season].index[Month(t)]
         ELSE 0

\* The index housesprinkler_program_activate applies; -1 when it returns
\* without activating any zone.
ActivationIndex(program, manual, t) ==
    IF ProgramIndexTimestamp > t - (3 * Day)
    THEN ProgramIndex
    ELSE IF program.season >= 0
         THEN LET index == SeasonValue(program.season, t) IN
              IF index = 0
              THEN IF ~manual THEN -1 ELSE 100
              ELSE index
         ELSE 100

\* The loop over the zones of the program: every call passes manual = 0.
RECURSIVE ActivateZones(_, _, _, _, _, _)
ActivateZones(Q, program, index, origin, i, t) ==
    IF i > Len(program.zones) THEN Q
    ELSE ActivateZones(
            housesprinkler_zone_activate(
                Q, program.zones[i].name,
                (program.zones[i].runtime * index) \div 100,
                FALSE, origin, t),
            program, index, origin, i + 1, t)

housesprinkler_program_activate(Q, program, manual, t) ==
    LET index == ActivationIndex(program, manual, t) IN
    IF index < 0 THEN Q
    ELSE ActivateZones(Q, program, index,
                       [program |-> program.name, manual |-> manual], 1, t)

\* housesprinkler_program_manual (name): the first program of that name is
\* activated; its running flag is left alone.
housesprinkler_program_manual(Q, name, t) ==
    IF \E i \in ProgramIndexSet : Programs[i].name = name
    THEN LET i == CHOOSE k \in ProgramIndexSet :
                     /\ Programs[k].name = name
                     /\ \A j \in ProgramIndexSet :
                           Programs[j].name = name => k <= j
         IN housesprinkler_program_activate(Q, Programs[i], TRUE, t)
    ELSE Q

housesprinkler_zone_idle(Q) == Len(Q) = 0

\* The day test of housesprinkler_program_periodic.
ProgramMatch(program, lastlaunch, t) ==
    IF program.repeat = SPRINKLER_REPEAT_WEEKLY
    THEN program.days[WeekDay(t)]
    ELSE IF program.repeat = SPRINKLER_REPEAT_DAILY
         THEN ((t - lastlaunch) \div Day) >= program.interval
         ELSE IF program.repeat = SPRINKLER_REPEAT_ONCE
              THEN LET delta == program.begin - t IN
                   lastlaunch = 0 /\ delta > 0 /\ delta < 60
              ELSE FALSE

\* The program module lets the evaluation at second t go on.
ProgramRainBlocked(t) == ProgramRainEnabled /\ ProgramRainDelay > t

\* Program i is due at second t.
ProgramDue(i, running, lastlaunch, t) ==
    /\ ~running /\ Programs[i].enabled
    /\ Hour(t) = Programs[i].hour /\ Minute(t) = Programs[i].minute
    /\ ~(Programs[i].begin > t)
    /\ ~(Programs[i].until > 0 /\ Programs[i].until < t)
    /\ ProgramMatch(Programs[i], lastlaunch, t)

\* The loop of housesprinkler_program_periodic over the programs, from i.
RECURSIVE ProgramScan(_, _, _)
ProgramScan(s, i, t) ==
    IF i >= ProgramsCount THEN s
    ELSE IF ProgramDue(i, s.ProgramRunning[i], s.ProgramLastlaunch[i], t)
         THEN ProgramScan(
                 [Queue |-> housesprinkler_program_activate(
                                s.Queue, Programs[i], FALSE, t),
                  ProgramRunning |-> [s.ProgramRunning EXCEPT ![i] = TRUE],
                  ProgramLastlaunch |-> [s.ProgramLastlaunch EXCEPT ![i] = t],
                  ProgramLaunched |-> [s.ProgramLaunched EXCEPT ![i] = t]],
                 i + 1, t)
         ELSE ProgramScan(s, i + 1, t)

\* housesprinkler_program_periodic (t) on the state s left by the zone module.
housesprinkler_program_periodic(s, t) ==
    IF ProgramLastMinute = << Hour(t), Minute(t) >>
    THEN [s EXCEPT !.ProgramLastMinute = ProgramLastMinute]
    ELSE IF ProgramRainBlocked(t)
         THEN [s EXCEPT !.ProgramLastMinute = << Hour(t), Minute(t) >>]
         ELSE LET scanned == ProgramScan(
                     [Queue |-> s.Queue, ProgramRunning |-> s.ProgramRunning,
                      ProgramLastlaunch |-> s.ProgramLastlaunch,
                      ProgramLaunched |-> s.ProgramLaunched], 0, t)
              IN
              [Queue |-> scanned.Queue,
               ProgramRunning |->
                   IF housesprinkler_zone_idle(scanned.Queue)
                   THEN [i \in ProgramIndexSet |-> FALSE]
                   ELSE scanned.ProgramRunning,
               ProgramLastlaunch |-> scanned.ProgramLastlaunch,
               ProgramLaunched |-> scanned.ProgramLaunched,
               ProgramLastMinute |-> << Hour(t), Minute(t) >>]

-----------------------------------------------------------------------------
(* The persistent state (housesprinkler_state.c).                          *)

\* sprinkler_host (): the name of this host.
ThisHost == "me"

\* A state text is a sequence of units: the opening brace, one unit for each
\* member of the JSON object, the closing brace.  A character buffer also
\* holds the terminating null character.
Unit(key, type, value) == [key |-> key, type |-> type, value |-> value]

OpenBrace == Unit("{", "char", 0)

CloseBrace == Unit("}", "char", 0)

NullChar == Unit("nul", "char", 0)

\* The comma that housesprinkler_state_format prints before a worker's
\* members, when no member follows it.
Comma == Unit(",", "char", 0)

\* The number of characters that "%d" prints for n.
RECURSIVE Digits(_)
Digits(n) ==
    IF n < 0 THEN 1 + Digits(-n)
    ELSE IF n < 10 THEN 1
    ELSE 1 + Digits(n \div 10)

\* uuid_unparse: the number of characters of a schedule's id.
UuidChars == 36

\* The number of characters of an element of the arrays of one-time
\* schedules ({"program":"%s","start":%lld}) and of schedules
\* ({"id":"%s","program":"%s","start":"%02d:%02d","launched":%ld}, the
\* start being left out by some writers).
EntryChars(e) ==
    IF "id" \in DOMAIN e
    THEN 7 + UuidChars + 13 + Len(e.program)
         + (IF "start" \in DOMAIN e THEN 16 ELSE 0)
         + 13 + Digits(e.launched) + 1
    ELSE 12 + Len(e.program) + 10 + Digits(e.start) + 1

\* The characters of the elements i .. of an array, separated by commas.
RECURSIVE EntriesChars(_, _)
EntriesChars(entries, i) ==
    IF i > Len(entries) THEN 0
    ELSE (IF i > 1 THEN 1 ELSE 0) + EntryChars(entries[i])
         + EntriesChars(entries, i + 1)

\* The number of characters of a unit: a member of the object is printed
\* with the comma before it, but for the host, which comes first.
UnitChars(u) ==
    IF u.type = "char" THEN 1
    ELSE IF u.key = "host" THEN 9 + Len(u.value)
    ELSE IF u.type = "string" THEN Len(u.key) + 6 + Len(u.value)
    ELSE IF u.type = "bool" THEN Len(u.key) + 4 + (IF u.value THEN 4 ELSE 5)
    ELSE IF u.type = "integer" THEN Len(u.key) + 4 + Digits(u.value)
    ELSE Len(u.key) + 5 + EntriesChars(u.value, 1) + 1

\* The number of characters of the units i .. of a text.
RECURSIVE CharsFrom(_, _)
CharsFrom(text, i) ==
    IF i > Len(text) THEN 0
    ELSE UnitChars(text[i]) + CharsFrom(text, i + 1)

\* strlen: the number of characters of a text.
Chars(text) == CharsFrom(text, 1)

\* The first size characters of a buffer; a unit that does not fit whole
\* is left out.
Take(buffer, size) ==
    LET k == CHOOSE k \in 0 .. Len(buffer) :
                /\ Chars(SubSeq(buffer, 1, k)) <= size
                /\ \A j \in (k + 1) .. Len(buffer) :
                      Chars(SubSeq(buffer, 1, j)) > size
    IN SubSeq(buffer, 1, k)

\* What a buffer holds from the character at that offset on.
Beyond(buffer, offset) ==
    IF Chars(buffer) <= offset THEN << >>
    ELSE LET k == CHOOSE k \in 0 .. Len(buffer) :
                     /\ Chars(SubSeq(buffer, 1, k)) >= offset
                     /\ \A j \in 0 .. (k - 1) :
                           Chars(SubSeq(buffer, 1, j)) < offset
         IN SubSeq(buffer, k + 1, Len(buffer))

\* echttp_json_parse finds no error in the text.
JsonValid(text) ==
    /\ Len(text) >= 2
    /\ text[1].key = "{"
    /\ text[Len(text)].key = "}"
    /\ \A i \in 2 .. (Len(text) - 1) : text[i].type # "char"

\* echttp_json_search (BackupParsed, path) for a member of the object: the
\* position of the member, or -1.  Nothing is found when no state was
\* loaded.
JsonSearch(text, key) ==
    IF \E i \in 1 .. Len(text) : text[i].key = key
    THEN CHOOSE i \in 1 .. Len(text) :
            /\ text[i].key = key
            /\ \A j \in 1 .. Len(text) : text[j].key = key => i <= j
    ELSE -1

\* housesprinkler_state_get_string (path): "" stands for the null pointer.
housesprinkler_state_get_string(text, key) ==
    LET i == JsonSearch(text, key) IN
    IF i < 0 THEN ""
    ELSE IF text[i].type = "string" THEN text[i].value
    ELSE ""

\* housesprinkler_state_get (path): booleans and integers, as an integer.
housesprinkler_state_get(text, key) ==
    LET i == JsonSearch(text, key) IN
    IF i < 0 THEN 0
    ELSE IF text[i].type = "bool" THEN (IF text[i].value THEN 1 ELSE 0)
    ELSE IF text[i].type = "integer" THEN text[i].value
    ELSE 0

\* The elements of the array member of that name; none when there is no
\* such array.
JsonArray(text, key) ==
    LET i == JsonSearch(text, key) IN
    IF i < 0 THEN << >>
    ELSE IF text[i].type = "array" THEN text[i].value
    ELSE << >>

\* housesprinkler_state_new (origin, data): the text kept in memory.  A text
\* with an error is dropped by housesprinkler_state_clear.
housesprinkler_state_new(data) == IF JsonValid(data) THEN data ELSE << >>

\* A periodic that gives up one second later.
StateGiveUpLater(changed, t) == changed < t - 11

\* housesprinkler_state_periodic: the saves have failed for too long.
StateGiveUp(changed, t) == changed < t - 10

\* housesprinkler_state_periodic: the change is older than this second.
StateDebounced(changed, t) == changed < t

\* housesprinkler_state_changed () at second t: the new StateDataHasChanged.
housesprinkler_state_changed(changed, t) == IF changed = 0 THEN t ELSE changed

\* The outcomes of housesprinkler_state_save: the file cannot be opened,
\* the file was opened (and truncated) but the write failed, all the
\* characters were written.
SaveOutcomes == {"noopen", "nowrite", "written"}

\* housesprinkler_state_save (size): the return value.
SaveResult(outcome, size) ==
    IF outcome = "noopen" THEN 0
    ELSE IF outcome = "nowrite" THEN -1
    ELSE size

\* housesprinkler_state_save (size): the content of the file afterwards.
SaveFile(file, buffer, outcome, size) ==
    IF outcome = "noopen" THEN file
    ELSE IF outcome = "nowrite" THEN << >>
    ELSE Take(buffer, size)

NoSave ==
    [at |-> 0, size |-> 0, written |-> 0, origin |-> "", shared |-> FALSE]

\* snprintf (buffer, size, "%s", data) on a buffer that holds old
\* characters: at most size - 1 characters of data, then the null character,
\* then what the buffer held beyond.
Snprintf(buffer, size, data) ==
    LET head == Take(data, size - 1) \o << NullChar >>
    IN head \o Beyond(buffer, Chars(head))

-----------------------------------------------------------------------------
(* Schedules (housesprinkler_schedule.c).                                  *)

\* The schedule table (.schedules), indexed from 0 as in the code.
Schedules ==
    [i \in {0} |->
        [program |-> "back", disabled |-> FALSE, begin |-> 0, until |-> 0,
         hour |-> 6, minute |-> 0, days |-> [d \in 0 .. 6 |-> TRUE]]]

SchedulesCount == 1

\* The one-time schedules the startup restore may have found in the state.
RestoredOneTime ==
    { << >>, << [program |-> "back", start |-> StartTime + 1] >> }

\* The index of the first program of that name, or -1.
ProgramByName(name) ==
    IF \E i \in ProgramIndexSet : Programs[i].name = name
    THEN CHOOSE i \in ProgramIndexSet :
            /\ Programs[i].name = name
            /\ \A j \in ProgramIndexSet : Programs[j].name = name => i <= j
    ELSE -1

\* housesprinkler_program_running (name).
housesprinkler_program_running(running, name) ==
    LET i == ProgramByName(name) IN i >= 0 /\ running[i]

\* housesprinkler_program_scheduled (name, 0): the program's latest
\* scheduled launch.
housesprinkler_program_scheduled(lastlaunch, name) ==
    LET i == ProgramByName(name) IN IF i >= 0 THEN lastlaunch[i] ELSE 0

\* housesprinkler_program_start_scheduled (name) returns a start time.
StartScheduledOk(s, name, t) ==
    LET i == ProgramByName(name) IN
    /\ i >= 0
    /\ ~s.ProgramRunning[i]
    /\ ActivationIndex(Programs[i], FALSE, t) > 0

\* housesprinkler_program_start_scheduled (name) at second t.
housesprinkler_program_start_scheduled(s, name, t) ==
    IF StartScheduledOk(s, name, t)
    THEN LET i == ProgramByName(name) IN
         [s EXCEPT !.Queue = housesprinkler_program_activate(
                                 s.Queue, Programs[i], FALSE, t),
                   !.ProgramRunning[i] = TRUE,
                   !.ProgramLastlaunch[i] = t,
                   !.ProgramLaunched[i] = t]
    ELSE s

\* The schedule module does not evaluate anything while the system is off.
ScheduleSwitchedOff(on) == ~on

\* The rain delay stops the evaluation.
ScheduleRainBlocked(raindelay) == raindelay > 0

\* A one-time schedule that is launched at the first evaluation, whatever
\* its start time.
OneTimeDueAtOnce(entry, t) == ~(entry.start = 0)

\* The one-time schedule is active and its start time was reached.
OneTimeDue(entry, t) == ~(entry.start = 0) /\ ~(entry.start > t)

\* The loop over the one-time schedules, from entry i (1-based here).
RECURSIVE OneTimeScan(_, _, _)
OneTimeScan(s, i, t) ==
    IF i > Len(s.OneTimeSchedules) THEN s
    ELSE LET entry == s.OneTimeSchedules[i] IN
         IF ~OneTimeDue(entry, t) \/ ~StartScheduledOk(s, entry.program, t)
         THEN OneTimeScan(s, i + 1, t)
         ELSE OneTimeScan(
                 [housesprinkler_program_start_scheduled(s, entry.program, t)
                     EXCEPT !.OneTimeSchedules[i].start = 0,
                            !.StateDataHasChanged =
                                housesprinkler_state_changed(@, now)],
                 i + 1, t)

\* Schedule i is due at second t.
ScheduleDue(s, i, t) ==
    LET schedule == Schedules[i] IN
    /\ ~schedule.disabled
    /\ ~housesprinkler_program_running(s.ProgramRunning, schedule.program)
    /\ Hour(t) = schedule.hour /\ Minute(t) = schedule.minute
    /\ ~(schedule.begin > t)
    /\ ~(schedule.until > 0 /\ schedule.until < t)
    /\ schedule.days[WeekDay(t)]
    /\ \/ ~(ScheduleInterval[i] > 1)
       \/ LET t0 == Max(housesprinkler_program_scheduled(
                            s.ProgramLastlaunch, schedule.program),
                        s.ScheduleLastlaunch[i])
          IN ~(((t - t0 + 21600) \div Day) < ScheduleInterval[i])

\* The loop over the recurring schedules, from entry i.
RECURSIVE ScheduleScan(_, _, _)
ScheduleScan(s, i, t) ==
    IF i >= SchedulesCount THEN s
    ELSE IF ScheduleDue(s, i, t) /\ StartScheduledOk(s, Schedules[i].program, t)
         THEN ScheduleScan(
                 [housesprinkler_program_start_scheduled(
                      s, Schedules[i].program, t)
                     EXCEPT !.ScheduleLastlaunch[i] = t,
                            !.StateDataHasChanged =
                                housesprinkler_state_changed(@, now)],
                 i + 1, t)
         ELSE ScheduleScan(s, i + 1, t)

\* housesprinkler_schedule_periodic (t) on the state s left by the program
\* module.
housesprinkler_schedule_periodic(s, t) ==
    IF ScheduleSwitchedOff(SprinklerOn) THEN s
    ELSE IF s.ScheduleLastMinute = << Hour(t), Minute(t) >> THEN s
    ELSE
      LET expired == s.RainDelay > 0 /\ s.RainDelay < t
          s1 == [s EXCEPT !.ScheduleLastMinute = << Hour(t), Minute(t) >>,
                          !.RainDelay = IF expired THEN 0 ELSE @]
      IN
      IF ScheduleRainBlocked(s1.RainDelay) THEN s1
      ELSE ScheduleScan(OneTimeScan(s1, 1, t), 0, t)

\* housesprinkler_schedule_set_rain (delay) at second t.
housesprinkler_schedule_set_rain(raindelay, delay, t) ==
    IF ~RainDelayEnabled THEN raindelay
    ELSE IF delay = 0 THEN 0
    ELSE IF raindelay < t THEN t + delay
    ELSE raindelay + delay

\* housesprinkler_schedule_rain (enabled) at second t: the new delay.
housesprinkler_schedule_rain(raindelay, enabled, t) ==
    IF RainDelayEnabled = enabled THEN raindelay
    ELSE IF ~enabled /\ raindelay > t THEN 0
    ELSE raindelay

\* Schedules[i].id: the UUID of the schedule.
ScheduleId == [i \in 0 .. (SchedulesCount - 1) |-> "uuid0"]

\* One-time schedules older than this are not restored.
OneTimeHorizon == 3 * Day

\* housesprinkler_schedule_again keeps a start of today that is not older
\* than this.
AgainMargin == 70

\* An entry that is not in use.
NoOneTime == [program |-> "", start |-> 0]

\* housesprinkler_schedule_new_onetime: the entry to use (1-based here), a
\* new one when every entry is active.  The table grows by 8 entries; the
\* entries never used yet are not represented.
housesprinkler_schedule_new_onetime(entries) ==
    IF \E i \in 1 .. Len(entries) : entries[i].start = 0
    THEN CHOOSE i \in 1 .. Len(entries) :
            /\ entries[i].start = 0
            /\ \A j \in 1 .. Len(entries) : entries[j].start = 0 => i <= j
    ELSE Len(entries) + 1

\* The table with the entry i set.
OneTimeSet(entries, i, entry) ==
    IF i > Len(entries) THEN Append(entries, entry)
    ELSE [entries EXCEPT ![i] = entry]

\* housesprinkler_schedule_again: the start of the new one-time schedule
\* for the recurring schedule j, at second t.
AgainStart(j, t) ==
    LET start == (t - (t % Day)) + (Schedules[j].hour * 3600)
                    + (Schedules[j].minute * 60)
    IN IF start < t - AgainMargin THEN start + Day ELSE start

\* housesprinkler_schedule_again (uuid) at second t, for the recurring
\* schedule j with that UUID: the new table of one-time schedules.
OneTimeAgain(entries, j, t) ==
    OneTimeSet(entries, housesprinkler_schedule_new_onetime(entries),
               [program |-> Schedules[j].program, start |-> AgainStart(j, t)])

\* housesprinkler_schedule_status: the members that the schedule module
\* writes for the memory m.
housesprinkler_schedule_status(m) ==
    LET active == SelectSeq(m.OneTimeSchedules, LAMBDA e : e.start # 0)
    IN << Unit("on", "bool", m.SprinklerOn) >>
       \o (IF m.RainDelayEnabled
           THEN << Unit("raindelay", "integer", m.RainDelay) >>
           ELSE << >>)
       \o (IF Len(active) > 0
           THEN << Unit("once", "array", active) >>
           ELSE << >>)
       \o (IF SchedulesCount > 0
           THEN << Unit("schedules", "array",
                        [i \in 1 .. SchedulesCount |->
                            [id |-> ScheduleId[i - 1],
                             program |-> Schedules[i - 1].program,
                             start |-> << Schedules[i - 1].hour,
                                          Schedules[i - 1].minute >>,
                             launched |-> m.ScheduleLastlaunch[i - 1]]]) >>
           ELSE << >>)

\* housesprinkler_schedule_status: what each snprintf adds to the cursor,
\* and whether the code compares the cursor with the size after it.  The
\* first member is printed without a comma; the bracket that closes an
\* array is not followed by a comparison.
StatusPrints(m) ==
    LET members == housesprinkler_schedule_status(m)
        Member(u) ==
            IF u.type = "array"
            THEN [i \in 1 .. Len(u.value) |->
                     [chars |-> (IF i = 1 THEN Len(u.key) + 5 ELSE 1)
                                + EntryChars(u.value[i]),
                      compared |-> TRUE]]
                 \o << [chars |-> 1, compared |-> FALSE] >>
            ELSE << [chars |-> UnitChars(u), compared |-> TRUE] >>
        RECURSIVE All(_)
        All(i) == IF i > Len(members) THEN << >>
                  ELSE Member(members[i]) \o All(i + 1)
    IN [All(1) EXCEPT ![1].chars = @ - 1]

\* housesprinkler_schedule_status (buffer, size): the value returned from
\* the snprintf i on, 0 when the buffer is too small (overflow).
RECURSIVE StatusCursor(_, _, _, _)
StatusCursor(prints, i, cursor, size) ==
    IF i > Len(prints) THEN cursor
    ELSE IF prints[i].compared /\ cursor + prints[i].chars >= size THEN 0
    ELSE StatusCursor(prints, i + 1, cursor + prints[i].chars, size)

\* The output buffer grows by this much.
BackupChunk == 1024

\* housesprinkler_state_format with a buffer of that size: the cursor
\* returned, the size of the buffer in the end and what the worker
\* returned.  The buffer grows and the function starts again (retry) when
\* the cursor has reached the size after the comma, after the worker or
\* after the closing brace.
RECURSIVE FormatRun(_, _)
FormatRun(m, size) ==
    LET comma == 1 + UnitChars(Unit("host", "string", ThisHost)) + 1
        worker == StatusCursor(StatusPrints(m), 1, 0, size - comma)
    IN IF comma >= size THEN FormatRun(m, size + BackupChunk)
       ELSE IF comma + worker >= size THEN FormatRun(m, size + BackupChunk)
       ELSE IF comma + worker + 1 >= size
            THEN FormatRun(m, size + BackupChunk)
       ELSE [cursor |-> comma + worker + 1, size |-> size,
             worker |-> worker]

\* housesprinkler_state_format: the number of characters of the text of
\* the memory m, the buffer and its size.  A worker that returns 0 has
\* put a null character after the comma, which the closing brace replaces.
housesprinkler_state_format(m, size) ==
    LET run == FormatRun(m, IF size = 0 THEN BackupChunk ELSE size)
        text == << OpenBrace, Unit("host", "string", ThisHost) >>
                \o (IF run.worker = 0 THEN << Comma >>
                    ELSE housesprinkler_schedule_status(m))
                \o << CloseBrace >>
    IN [cursor |-> run.cursor,
        BackupOutBuffer |-> text \o << NullChar >>,
        BackupOutBufferSize |-> run.size]

\* housesprinkler_program_scheduled (name, scheduled) with a time: the
\* program's latest scheduled launch is set.
ProgramScheduledSet(lastlaunch, name, scheduled) ==
    LET i == ProgramByName(name) IN
    IF i >= 0 THEN [lastlaunch EXCEPT ![i] = scheduled] ELSE lastlaunch

\* housesprinkler_schedule_restore: the loop over .once[i] ends.  It does
\* not move to the next entry after one that is too old.
RestoreReturns(text, t) ==
    \A i \in 1 .. Len(JsonArray(text, "once")) :
        ~(JsonArray(text, "once")[i].start < t - OneTimeHorizon)

\* A restore that does not look at the host that wrote the state.
RestoredOnAnyHost(text) == housesprinkler_state_get(text, "on") # 0

\* housesprinkler_schedule_restore: SprinklerOn.
RestoredOn(text) ==
    LET active == housesprinkler_state_get_string(text, "host") IN
    /\ housesprinkler_state_get(text, "on") # 0
    /\ ~(active # "" /\ active # ThisHost)

\* housesprinkler_schedule_restore: the loop over .schedule[i], from the
\* element i of the array.
RECURSIVE RestoreLaunches(_, _, _)
RestoreLaunches(m, saved, i) ==
    IF i > Len(saved) THEN m
    ELSE IF \E j \in 0 .. (SchedulesCount - 1) : ScheduleId[j] = saved[i].id
    THEN LET j == CHOOSE j \in 0 .. (SchedulesCount - 1) :
                     /\ ScheduleId[j] = saved[i].id
                     /\ \A k \in 0 .. (SchedulesCount - 1) :
                           ScheduleId[k] = saved[i].id => j <= k
             launched == saved[i].launched
             own == ProgramScheduledSet(m.ProgramLastlaunch,
                                        Schedules[j].program, launched)
         IN RestoreLaunches(
               [m EXCEPT !.ScheduleLastlaunch[j] = launched,
                         !.ProgramLastlaunch =
                             IF saved[i].program # Schedules[j].program
                             THEN ProgramScheduledSet(own, saved[i].program,
                                                      launched)
                             ELSE own],
               saved, i + 1)
    ELSE RestoreLaunches(m, saved, i + 1)

\* housesprinkler_schedule_restore at second t: the memory m after the
\* state text was read.
housesprinkler_schedule_restore(m, text, t) ==
    LET raindelay == housesprinkler_state_get(text, "raindelay")
        once == JsonArray(text, "once")
        count == IF Len(once) > Len(m.OneTimeSchedules) THEN Len(once)
                 ELSE Len(m.OneTimeSchedules)
        m1 == [m EXCEPT
                 !.SprinklerOn = RestoredOn(text),
                 !.ShareStateData = RestoredOn(text),
                 !.RainDelay = IF raindelay < t THEN 0 ELSE raindelay,
                 !.OneTimeSchedules =
                     [i \in 1 .. count |->
                         IF i <= Len(once)
                         THEN [program |-> once[i].program,
                               start |-> once[i].start]
                         ELSE NoOneTime]]
    IN RestoreLaunches(m1, JsonArray(text, "schedule"), 1)

\* The memory that the state is saved from and restored to.
Memory ==
    [SprinklerOn |-> SprinklerOn,
     ShareStateData |-> ShareStateData,
     RainDelayEnabled |-> RainDelayEnabled,
     RainDelay |-> RainDelay,
     OneTimeSchedules |-> OneTimeSchedules,
     ScheduleLastlaunch |-> ScheduleLastlaunch,
     ProgramLastlaunch |-> ProgramLastlaunch]

\* The memory when the program starts: what housesprinkler_schedule_refresh
\* and housesprinkler_program_refresh leave before the state is restored.
FreshMemory ==
    [SprinklerOn |-> TRUE,
     ShareStateData |-> TRUE,
     RainDelayEnabled |-> RainDelayEnabled,
     RainDelay |-> 0,
     OneTimeSchedules |-> << >>,
     ScheduleLastlaunch |-> [i \in 0 .. (SchedulesCount - 1) |-> 0],
     ProgramLastlaunch |-> [i \in ProgramIndexSet |-> 0]]

-----------------------------------------------------------------------------
(* The main program (housesprinkler.c).                                    *)

NoMinute == << -1, -1 >>

NoRequest == [route |-> "", name |-> "", pulse |-> 0]

NoDispatch == [zone |-> 0, at |-> 0, pulse |-> 0, ok |-> FALSE, origins |-> {}]

\* The state once main() has loaded the configuration and enters the loop.
InitCommon ==
    /\ now = StartTime
    /\ LastCall = 0
    /\ DelayConfigDiscovery = 0
    /\ ZoneStatus = [i \in 1 .. 2 |-> "u"]
    /\ ZoneServer = [i \in 1 .. 2 |-> 0]
    /\ ServerStatus = [i \in 1 .. ServersCount |-> "u"]
    /\ Queue = << >>
    /\ ZoneActive = 0
    /\ ZonesBusy = 0
    /\ starting = 0
    /\ latestdiscovery = 0
    /\ ZoneRequests = [i \in 1 .. 2 |-> 0]
    /\ ServerRequests = 0
    /\ ZoneLastOn = [i \in 1 .. 2 |-> NoStart]
    /\ Dispatched = NoDispatch
    /\ ProgramRunning = [i \in ProgramIndexSet |-> FALSE]
    /\ ProgramLastMinute = NoMinute
    /\ ProgramLaunched = [i \in ProgramIndexSet |-> 0]
    /\ RainDelayEnabled = TRUE
    /\ ScheduleLastMinute = NoMinute
    /\ Requests = 0

\* The state that was restored at startup: the system is ON, no rain delay
\* is pending and no launch is recorded.
InitSwitchedOn ==
    /\ SprinklerOn = TRUE
    /\ RainDelay = 0
    /\ ScheduleLastlaunch = [i \in 0 .. (SchedulesCount - 1) |-> 0]
    /\ ProgramLastlaunch = [i \in ProgramIndexSet |-> 0]

\* housesprinkler_state_load found the local file, which holds the state
\* that the schedule module has restored; nothing was saved yet.
StateInit ==
    /\ StateDataHasChanged = 0
    /\ ShareStateData = SprinklerOn
    /\ BackupOutBuffer = << >>
    /\ BackupOutBufferSize = 0
    /\ StateSaved = NoSave
    /\ \E F \in {housesprinkler_state_format(Memory, 0)} :
          /\ BackupFile = Take(F.BackupOutBuffer, F.cursor)
          /\ BackupInText = Take(F.BackupOutBuffer, F.cursor)

NoReply == [zone |-> 0, status |-> 0, target |-> 0]

NoPulses == [activations |-> 0, total |-> 0, pulses |-> << >>]

\* housesprinkler_config_load has read and parsed the configuration file;
\* ZoneActive is null.
ConfigInit ==
    /\ ConfigText = "startup"
    /\ ConfigParsed = [text |-> "startup", error |-> FALSE]
    /\ ConfigFile = "startup"
    /\ ZoneActiveFreed = FALSE
    /\ ZoneRequestsFreed = [i \in 1 .. 2 |-> FALSE]
    /\ LastReply = NoReply
    /\ ZonePulses = [i \in 1 .. 2 |-> NoPulses]
    /\ RestoreLoop = 0

\* No schedule has an interval.
IntervalInit ==
    /\ ConfiguredInterval = [i \in 0 .. (SchedulesCount - 1) |-> 0]
    /\ ScheduleInterval = [i \in 0 .. (SchedulesCount - 1) |-> 0]

\* No index server is configured: no online index is ever received.
SprinklerIndexIdle ==
    /\ SprinklerIndex = 100
    /\ SprinklerIndexTimestamp = 0
    /\ SprinklerIndexOrigin = 0
    /\ IndexServers = << >>

InitIndex ==
    /\ ProgramIndex = NoIndex.ProgramIndex
    /\ ProgramIndexTimestamp = NoIndex.ProgramIndexTimestamp
    /\ SprinklerIndexIdle

\* No feed is configured and no feed activation is in progress.
FeedIdle ==
    /\ Feed = << >>
    /\ feedName = ""
    /\ feedPrevious = ""
    /\ feedLoop = 0
    /\ feedPc = "done"
    /\ feedVisits = 0
    /\ feedStarts = << >>
    /\ feedPulse = 0

\* housesprinkler_feed_activate is not in progress.
FeedReturned == feedPc = "done"

\* The control points that housesprinkler_feed_refresh has declared; no
\* control server is known yet.
ControlInit ==
    \E c \in {ControlsLoaded(Feed)} :
       /\ Controls = c.Controls
       /\ ControlsActive = c.ControlsActive
       /\ ControlRequests = c.ControlRequests
       /\ ControlStarted = c.ControlStarted
       /\ ControlStopped = c.ControlStopped
       /\ ControlDiscovery = [latestdiscovery |-> 0, requests |-> 0]

Init ==
    /\ InitCommon
    /\ InitSwitchedOn
    /\ InitIndex
    /\ LastRequest = NoRequest
    /\ Zones \in {table \in ZoneTables :
                    \A i \in 1 .. Len(table) : ~table[i].manual}
    /\ OneTimeSchedules \in RestoredOneTime
    /\ StateInit
    /\ IntervalInit
    /\ ConfigInit
    /\ FeedIdle
    /\ ControlInit

\* The wall clock reaches the next second.  The loop calls hs_background at
\* least once in every second.
Advance ==
    /\ FeedReturned
    /\ LastCall = now
    /\ now < StartTime + MaxTicks
    /\ now' = now + 1
    /\ UNCHANGED configVars
    /\ UNCHANGED feedVars
    /\ UNCHANGED indexVars
    /\ UNCHANGED stateVars
    /\ UNCHANGED controlVars
    /\ UNCHANGED << LastCall, DelayConfigDiscovery, Zones, ZoneStatus, Queue,
                    discoveryVars, scheduleVars, programVars, switchVars,
                    onetimeVars, Requests, LastRequest >>

\* hs_background: the first call of the second now.  The index module has
\* no server to query with this configuration.
Background ==
    /\ FeedReturned
    /\ now # LastCall
    /\ LastCall' = now
    /\ LET delay == IF DelayConfigDiscovery = 0 THEN now + 2
                    ELSE DelayConfigDiscovery
       IN
       /\ DelayConfigDiscovery' = delay
       /\ IF now >= delay
          THEN \E zoneok, serverok \in BOOLEAN :
               \E aliased \in IF ZoneActiveFreed THEN BOOLEAN ELSE {TRUE} :
               \E controlok \in IF ControlsCount > 0 THEN BOOLEAN
                                ELSE {TRUE} :
               \E K \in {housesprinkler_control_periodic(ControlState,
                                                         now)} :
               \E D \in {housesprinkler_zone_discovery(now, serverok)} :
               \E Z \in {housesprinkler_zone_schedule(now, zoneok,
                                                       aliased)} :
               \E P \in {housesprinkler_program_periodic(
                           [Queue |-> Z.Queue,
                            ProgramRunning |-> ProgramRunning,
                            ProgramLastlaunch |-> ProgramLastlaunch,
                            ProgramLaunched |-> ProgramLaunched,
                            ProgramLastMinute |-> ProgramLastMinute], now)} :
               \E S \in {housesprinkler_schedule_periodic(
                           [Queue |-> P.Queue,
                            ProgramRunning |-> P.ProgramRunning,
                            ProgramLastlaunch |-> P.ProgramLastlaunch,
                            ProgramLaunched |-> P.ProgramLaunched,
                            RainDelay |-> RainDelay,
                            OneTimeSchedules |-> OneTimeSchedules,
                            ScheduleLastlaunch |-> ScheduleLastlaunch,
                            ScheduleLastMinute |-> ScheduleLastMinute,
                            StateDataHasChanged |-> StateDataHasChanged],
                           now)} :
               /\ Controls' = K.Controls
               /\ ControlsActive' = K.ControlsActive
               /\ ControlDiscovery' =
                     IF ControlsCount <= 0 THEN ControlDiscovery
                     ELSE housesprinkler_control_discover(
                             ControlDiscovery, now, controlok)
               /\ starting' = D.starting
               /\ latestdiscovery' = D.latestdiscovery
               /\ ServerStatus' = D.ServerStatus
               /\ ServerRequests' = D.ServerRequests
               /\ ZoneStatus' = Z.ZoneStatus
               /\ ZoneActive' = Z.ZoneActive
               /\ ZoneActiveFreed' = Z.ZoneActiveFreed
               /\ ZonesBusy' = Z.ZonesBusy
               /\ ZoneRequests' = Z.ZoneRequests
               /\ ZoneLastOn' = Z.ZoneLastOn
               /\ Dispatched' = Z.Dispatched
               /\ ProgramLastMinute' = P.ProgramLastMinute
               /\ Queue' = S.Queue
               /\ ProgramRunning' = S.ProgramRunning
               /\ ProgramLastlaunch' = S.ProgramLastlaunch
               /\ ProgramLaunched' = S.ProgramLaunched
               /\ RainDelay' = S.RainDelay
               /\ OneTimeSchedules' = S.OneTimeSchedules
               /\ ScheduleLastlaunch' = S.ScheduleLastlaunch
               /\ ScheduleLastMinute' = S.ScheduleLastMinute
               /\ StateDataHasChanged' = S.StateDataHasChanged
          ELSE UNCHANGED << ZoneStatus, Queue, starting, latestdiscovery,
                            ServerStatus, ServerRequests, scheduleVars,
                            programVars, RainDelay, onetimeVars,
                            Controls, ControlsActive, ControlDiscovery,
                            StateDataHasChanged, ZoneActiveFreed >>
    /\ UNCHANGED << intervalVars, ConfigText, ConfigParsed, ConfigFile,
                    ZoneRequestsFreed, LastReply, RestoreLoop >>
    /\ UNCHANGED feedVars
    /\ UNCHANGED indexVars
    /\ UNCHANGED << ShareStateData, BackupInText, BackupOutBuffer,
                    BackupOutBufferSize, BackupFile, StateSaved >>
    /\ UNCHANGED << ControlRequests, ControlStarted, ControlStopped >>
    /\ UNCHANGED << now, Zones, ZoneServer, SprinklerOn, RainDelayEnabled,
                    Requests, LastRequest >>

hs_background == Background /\ UNCHANGED ZonePulses

\* An HTTP request is received.
Served ==
    /\ Requests < MaxRequests
    /\ Requests' = Requests + 1

WithinRuntime(Q) == \A i \in 1 .. Len(Q) : Q[i].runtime <= MaxRuntime

\* sprinkler_zone_on: /sprinkler/zone/on?name=..&pulse=..
sprinkler_zone_on ==
    /\ Served
    /\ \E name \in ZoneNames, pulse \in ZoneOnPulses :
          /\ Queue' = housesprinkler_zone_activate(
                          Queue, name, pulse, FALSE, ZoneRequest, now)
          /\ LastRequest' = [route |-> "zone/on", name |-> name,
                              pulse |-> pulse]
          /\ WithinRuntime(Queue')
    /\ UNCHANGED configVars
    /\ UNCHANGED feedVars
    /\ UNCHANGED indexVars
    /\ UNCHANGED stateVars
    /\ UNCHANGED controlVars
    /\ UNCHANGED << clockVars, Zones, ZoneStatus, discoveryVars, scheduleVars,
                    programVars, switchVars, onetimeVars >>

\* sprinkler_zone_off: /sprinkler/zone/off.
sprinkler_zone_off ==
    /\ FeedReturned
    /\ Served
    /\ Queue' = housesprinkler_zone_stop(Queue)
    /\ \E sockok \in [ControlIndex -> BOOLEAN] :
       \E K \in {housesprinkler_control_cancel(ControlState, sockok)} :
          /\ Controls' = K.Controls
          /\ ControlsActive' = K.ControlsActive
          /\ ControlRequests' = K.ControlRequests
          /\ ControlStopped' = K.ControlStopped
          /\ ControlStarted' = K.ControlStarted
    /\ LastRequest' = [route |-> "zone/off", name |-> "", pulse |-> 0]
    /\ UNCHANGED ControlDiscovery
    /\ UNCHANGED configVars
    /\ UNCHANGED feedVars
    /\ UNCHANGED indexVars
    /\ UNCHANGED stateVars
    /\ UNCHANGED << clockVars, Zones, ZoneStatus, discoveryVars, scheduleVars,
                    programVars, switchVars, onetimeVars >>

\* sprinkler_program_on: /sprinkler/program/on?name=..
sprinkler_program_on ==
    /\ Served
    /\ \E name \in ProgramNames :
          /\ Queue' = housesprinkler_program_manual(Queue, name, now)
          /\ LastRequest' = [route |-> "program/on", name |-> name,
                              pulse |-> 0]
          /\ WithinRuntime(Queue')
    /\ UNCHANGED configVars
    /\ UNCHANGED feedVars
    /\ UNCHANGED indexVars
    /\ UNCHANGED stateVars
    /\ UNCHANGED controlVars
    /\ UNCHANGED << clockVars, Zones, ZoneStatus, discoveryVars, scheduleVars,
                    programVars, switchVars, onetimeVars >>

\* sprinkler_onoff: /sprinkler/onoff (housesprinkler_schedule_switch).
sprinkler_onoff ==
    /\ Served
    /\ SprinklerOn' = ~SprinklerOn
    /\ ShareStateData' = SprinklerOn'
    /\ StateDataHasChanged' =
          housesprinkler_state_changed(StateDataHasChanged, now)
    /\ LastRequest' = [route |-> "onoff", name |-> "", pulse |-> 0]
    /\ UNCHANGED configVars
    /\ UNCHANGED feedVars
    /\ UNCHANGED indexVars
    /\ UNCHANGED << BackupInText, BackupOutBuffer, BackupOutBufferSize,
                    BackupFile, StateSaved >>
    /\ UNCHANGED controlVars
    /\ UNCHANGED << clockVars, Zones, ZoneStatus, Queue, discoveryVars,
                    scheduleVars, programVars, RainDelayEnabled, RainDelay,
                    onetimeVars >>

\* sprinkler_raindelay: /sprinkler/raindelay?amount=..
sprinkler_raindelay ==
    /\ Served
    /\ \E amount \in RainAmounts :
          /\ RainDelay' =
                housesprinkler_schedule_set_rain(RainDelay, amount, now)
          /\ LastRequest' = [route |-> "raindelay", name |-> "",
                              pulse |-> amount]
    /\ StateDataHasChanged' =
          IF RainDelayEnabled
          THEN housesprinkler_state_changed(StateDataHasChanged, now)
          ELSE StateDataHasChanged
    /\ UNCHANGED configVars
    /\ UNCHANGED feedVars
    /\ UNCHANGED indexVars
    /\ UNCHANGED << ShareStateData, BackupInText, BackupOutBuffer,
                    BackupOutBufferSize, BackupFile, StateSaved >>
    /\ UNCHANGED controlVars
    /\ UNCHANGED << clockVars, Zones, ZoneStatus, Queue, discoveryVars,
                    scheduleVars, programVars, SprinklerOn, RainDelayEnabled,
                    onetimeVars >>

\* sprinkler_rain: /sprinkler/rain?active=..
sprinkler_rain ==
    /\ Served
    /\ \E active \in BOOLEAN :
          /\ RainDelay' = housesprinkler_schedule_rain(RainDelay, active, now)
          /\ RainDelayEnabled' = active
          /\ LastRequest' = [route |-> "rain",
                              name |-> IF active THEN "true" ELSE "false",
                              pulse |-> 0]
    /\ StateDataHasChanged' =
          IF RainDelay' # RainDelay
          THEN housesprinkler_state_changed(StateDataHasChanged, now)
          ELSE StateDataHasChanged
    /\ UNCHANGED configVars
    /\ UNCHANGED feedVars
    /\ UNCHANGED indexVars
    /\ UNCHANGED << ShareStateData, BackupInText, BackupOutBuffer,
                    BackupOutBufferSize, BackupFile, StateSaved >>
    /\ UNCHANGED controlVars
    /\ UNCHANGED << clockVars, Zones, ZoneStatus, Queue, discoveryVars,
                    scheduleVars, programVars, SprinklerOn, onetimeVars >>

\* The zones whose status a reply to the start request of a zone may write.
\* housesprinkler_zone_start submits the request with the origin
\* (void *)Zones+zone: the zone index is added to the address in bytes, not
\* in elements.  The origin is the zone itself for the first zone only; for
\* any other zone the handler reads and writes through a pointer into the
\* middle of the table, which is undefined: the write may hit no status
\* field at all (0) or the status field of any zone.  So it is for every
\* zone when the table was freed since the request was submitted.
ControlledTargets(zone) ==
    IF zone = 1 /\ ~ZoneRequestsFreed[zone] THEN {1} ELSE {0} \cup ZoneIndex

\* The HTTP status of the replies to a start request.
ReplyStatus == {200, 302, 500}

\* housesprinkler_zone_controlled (origin, status, ..): the reply to a
\* start request of that zone, its status written to that target.
ZoneControlled(zone, status, target) ==
    /\ ZoneRequests[zone] > 0
    /\ IF status = 302
       THEN \* Redirected: the request is submitted again, or given up.
            /\ \E again \in BOOLEAN :
                  ZoneRequests' = [ZoneRequests EXCEPT
                     ![zone] = IF again THEN @ ELSE @ - 1]
            /\ UNCHANGED ZoneStatus
       ELSE /\ ZoneRequests' = [ZoneRequests EXCEPT ![zone] = @ - 1]
            /\ ZoneStatus' =
                  IF target = 0 THEN ZoneStatus
                  ELSE [ZoneStatus EXCEPT
                          ![target] = ControlledStatus(@, status)]
    /\ ZoneRequestsFreed' =
          [ZoneRequestsFreed EXCEPT ![zone] = @ /\ ZoneRequests'[zone] > 0]
    /\ UNCHANGED << intervalVars, ConfigText, ConfigParsed, ConfigFile,
                    ZoneActiveFreed, ZonePulses, RestoreLoop >>
    /\ UNCHANGED feedVars
    /\ UNCHANGED indexVars
    /\ UNCHANGED stateVars
    /\ UNCHANGED controlVars
    /\ UNCHANGED << clockVars, Zones, Queue, discoveryVars, ZoneActive,
                    ZonesBusy, ZoneLastOn, Dispatched, programVars,
                    switchVars, onetimeVars, Requests, LastRequest >>

\* housesprinkler_zone_controlled: the reply to a start request of a zone.
housesprinkler_zone_controlled ==
    \E zone \in 1 .. 2, status \in ReplyStatus :
    \E target \in ControlledTargets(zone) :
       /\ ZoneControlled(zone, status, target)
       /\ UNCHANGED LastReply

\* What a reply to a discovery request may be: a redirect, an HTTP or JSON
\* error, a status without zone data, or the names of the points the server
\* controls.
DiscoveryReplies ==
    {[kind |-> k, found |-> {}] : k \in {"redirect", "error", "nodata"}}
       \cup {[kind |-> "ok", found |-> f] : f \in {ZoneNames, {"lawn"}}}

\* housesprinkler_zone_discovered: the reply to a discovery request.
housesprinkler_zone_discovered ==
    \E server \in 1 .. ServersCount, reply \in DiscoveryReplies :
       /\ ServerRequests > 0
       /\ IF reply.kind = "redirect"
          THEN /\ \E again \in BOOLEAN :
                     ServerRequests' = IF again THEN ServerRequests
                                       ELSE ServerRequests - 1
               /\ UNCHANGED << ServerStatus, ZoneServer, ZoneStatus >>
          ELSE /\ ServerRequests' = ServerRequests - 1
               /\ IF reply.kind = "error"
                  THEN /\ ServerStatus' = [ServerStatus EXCEPT ![server] = "e"]
                       /\ UNCHANGED << ZoneServer, ZoneStatus >>
                  ELSE IF reply.kind = "nodata"
                  THEN UNCHANGED << ServerStatus, ZoneServer, ZoneStatus >>
                  ELSE /\ ServerStatus' = [ServerStatus EXCEPT ![server] = "a"]
                       /\ ZoneServer' =
                             [i \in 1 .. 2 |->
                                 IF Zones[i].name \in reply.found
                                 THEN server ELSE ZoneServer[i]]
                       /\ ZoneStatus' =
                             [i \in 1 .. 2 |->
                                 IF Zones[i].name \in reply.found
                                 THEN "i" ELSE ZoneStatus[i]]
       /\ UNCHANGED configVars
       /\ UNCHANGED feedVars
       /\ UNCHANGED indexVars
       /\ UNCHANGED stateVars
       /\ UNCHANGED controlVars
       /\ UNCHANGED << clockVars, Zones, Queue, starting, latestdiscovery,
                       scheduleVars, programVars, switchVars, onetimeVars,
                       Requests, LastRequest >>

\* The service with the requests that act on the zone queue.
InitZone ==
    /\ InitCommon
    /\ InitSwitchedOn
    /\ InitIndex
    /\ LastRequest = NoRequest
    /\ Zones \in ZoneTables
    /\ OneTimeSchedules = << >>
    /\ StateInit
    /\ IntervalInit
    /\ ConfigInit
    /\ FeedIdle
    /\ ControlInit

NextZone ==
    \/ Advance
    \/ hs_background
    \/ sprinkler_zone_on
    \/ sprinkler_zone_off
    \/ sprinkler_program_on
    \/ housesprinkler_zone_controlled
    \/ housesprinkler_zone_discovered

SpecZone == InitZone /\ [][NextZone]_vars

\* The service with the requests that act on the programs and schedules.
Next ==
    \/ Advance
    \/ hs_background
    \/ sprinkler_program_on
    \/ sprinkler_zone_off
    \/ sprinkler_onoff
    \/ sprinkler_raindelay
    \/ sprinkler_rain
    \/ housesprinkler_zone_controlled
    \/ housesprinkler_zone_discovered

Spec == Init /\ [][Next]_vars

-----------------------------------------------------------------------------
(* housesprinkler_feed.c                                                   *)

\* The largest number of feeds of a configuration.
MaxFeeds == 3

\* No loop of an activation is followed for more iterations than this.
MaxFeedSteps == MaxFeeds + 2

\* The names that the configuration gives to its feeds, in the order of
\* the table, and a name that no feed has.
FeedNames == << "pump", "well", "booster", "tank", "filter" >>

FeedUnknown == "drain"

\* The linger time of the i-th feed of the configuration: none for the
\* first one, and a different one for each of the others.
FeedLinger(i) == 3 * (i - 1)

\* The pulse lengths that feeds are activated for.
FeedPulses == {1, 2}

\* The names that a pointer to a name can designate: a null pointer and
\* the empty string are both "".
FeedNameSet == {FeedNames[i] : i \in 1 .. (MaxFeeds + 1)} \cup {"", FeedUnknown}

\* The tables that housesprinkler_feed_refresh can load: every chain of
\* next fields, with cycles and unknown names.
FeedTables ==
    UNION { { [i \in 1 .. n |-> [name |-> FeedNames[i], next |-> nx[i],
                                  manual |-> mn[i],
                                  linger |-> FeedLinger(i)]] :
              nx \in [1 .. n -> FeedNameSet \ {FeedNames[MaxFeeds + 1]}],
              mn \in [1 .. n -> BOOLEAN] } :
            n \in 0 .. MaxFeeds }

FeedCount == Len(Feed)

\* The index of the first feed with that name, 0 if there is none.
housesprinkler_feed_search(name) ==
    LET found == {i \in 1 .. FeedCount : Feed[i].name = name} IN
    IF found = {} THEN 0
    ELSE CHOOSE i \in found : \A j \in found : i <= j

\* A variant that never ends the loop on the count of iterations.
FeedLoopUnlimited(loop) == FALSE

\* The feed chain has been followed through as many feeds as there are.
FeedLoopLimit(loop) == loop >= FeedCount

\* A variant that leaves the linger out.
FeedDurationNoLinger(pulse, feed) == pulse

\* The pulse that housesprinkler_feed_activate gives to
\* housesprinkler_control_start for a feed.
FeedDuration(pulse, feed) == pulse + Feed[feed].linger

\* One evaluation of the loop condition of housesprinkler_feed_activate and,
\* when it holds, one iteration.
housesprinkler_feed_activate ==
    /\ feedPc = "loop"
    /\ feedLoop < MaxFeedSteps
    /\ IF feedName = ""
       THEN /\ feedPc' = "done"
            /\ UNCHANGED << feedName, feedPrevious, feedLoop, feedVisits,
                            feedStarts, Controls, ControlsActive,
                            ControlRequests, ControlStarted >>
       ELSE LET feed == housesprinkler_feed_search(feedName) IN
            IF feed = 0
            THEN /\ feedPc' = "done"
                 /\ UNCHANGED << feedName, feedPrevious, feedLoop,
                                 feedVisits, feedStarts, Controls,
                                 ControlsActive, ControlRequests,
                                 ControlStarted >>
            ELSE /\ IF ~Feed[feed].manual
                    THEN /\ feedStarts' =
                              Append(feedStarts,
                                     [name |-> feedName,
                                      pulse |-> FeedDuration(feedPulse,
                                                             feed)])
                         /\ \E sockok \in BOOLEAN :
                            \E K \in {housesprinkler_control_start(
                                         ControlState, feedName,
                                         FeedDuration(feedPulse, feed),
                                         now, sockok)} :
                               /\ Controls' = K.Controls
                               /\ ControlsActive' = K.ControlsActive
                               /\ ControlRequests' = K.ControlRequests
                               /\ ControlStarted' = K.ControlStarted
                    ELSE UNCHANGED << feedStarts, Controls, ControlsActive,
                                      ControlRequests, ControlStarted >>
                 /\ feedVisits' = feedVisits + 1
                 /\ feedPrevious' = feedName
                 /\ feedName' = Feed[feed].next
                 /\ feedLoop' = feedLoop + 1
                 /\ feedPc' = IF FeedLoopLimit(feedLoop + 1)
                              THEN "done" ELSE "loop"
    /\ UNCHANGED indexVars
    /\ UNCHANGED configVars
    /\ UNCHANGED stateVars
    /\ UNCHANGED << Feed, feedPulse, ControlDiscovery, ControlStopped,
                    clockVars, Zones, ZoneStatus, Queue, discoveryVars,
                    scheduleVars, programVars, switchVars, onetimeVars,
                    Requests, LastRequest >>

\* housesprinkler_feed_activate is entered with any name, for any table.
InitFeed ==
    /\ InitCommon
    /\ InitSwitchedOn
    /\ InitIndex
    /\ Zones = << >>
    /\ OneTimeSchedules = << >>
    /\ StateInit
    /\ IntervalInit
    /\ ConfigInit
    /\ Feed \in FeedTables
    /\ feedName \in FeedNameSet
    /\ feedPulse \in FeedPulses
    /\ LastRequest = [route |-> "pulse", name |-> feedName,
                      pulse |-> feedPulse]
    /\ feedPrevious = ""
    /\ feedLoop = 0
    /\ feedPc = "loop"
    /\ feedVisits = 0
    /\ feedStarts = << >>
    /\ ControlInit

NextFeed == housesprinkler_feed_activate

\* The function runs to its end once called.
SpecFeed == InitFeed /\ [][NextFeed]_vars /\ WF_vars(NextFeed)

-----------------------------------------------------------------------------
(* The activation of a program (housesprinkler_program_activate), for any   *)
(* program, season and online index.                                        *)

\* The index of the first season with that name, -1 if there is none.
housesprinkler_program_season_find(name) ==
    LET found == {i \in 0 .. (SeasonsCount - 1) : Seasons[i].name = name} IN
    IF found = {} THEN -1
    ELSE CHOOSE i \in found : \A j \in found : i <= j

\* Programs of the configuration: name, season item ("" when there is
\* none) and zones.
ProgramConfigs ==
    {[name |-> n, season |-> IF n = "plain" THEN "" ELSE n,
      zones |-> << [name |-> "lawn", runtime |-> 2],
                   [name |-> "slope", runtime |-> 1],
                   [name |-> "drip", runtime |-> 1] >>] :
       n \in {"plain", "summer", "winter", "spring"}}

\* The program as housesprinkler_program_refresh loads it: the table comes
\* from calloc, and the season is set only when the item is present.
ProgramLoaded(config) ==
    [Programs[1] EXCEPT
        !.name = config.name,
        !.season = IF config.season = "" THEN 0
                   ELSE housesprinkler_program_season_find(config.season),
        !.zones = config.zones]

\* The values of the online index, and how long before startup it may
\* have been received (0: never).
IndexValues == {0, 150}

IndexAges == {0, 3600, 2 * Day, 4 * Day}

\* A program is activated, by hand or by its schedule.
program_activate_call ==
    /\ Served
    /\ \E config \in ProgramConfigs, manual \in BOOLEAN :
          /\ Queue' = housesprinkler_program_activate(
                          Queue, ProgramLoaded(config), manual, now)
          /\ LastRequest' = [route |-> IF manual THEN "activate/manual"
                                       ELSE "activate",
                             name |-> config.name, pulse |-> 0]
          /\ WithinRuntime(Queue')
    /\ UNCHANGED configVars
    /\ UNCHANGED feedVars
    /\ UNCHANGED indexVars
    /\ UNCHANGED stateVars
    /\ UNCHANGED controlVars
    /\ UNCHANGED << clockVars, Zones, ZoneStatus, discoveryVars, scheduleVars,
                    programVars, switchVars, onetimeVars >>

\* housesprinkler_program_set_index: the index module hands over the index
\* it has just received.
housesprinkler_program_set_index ==
    /\ \E value \in IndexValues :
          /\ ProgramIndex' = value
          /\ ProgramIndexTimestamp' = now
    /\ UNCHANGED << SprinklerIndex, SprinklerIndexTimestamp,
                    SprinklerIndexOrigin, IndexServers >>
    /\ UNCHANGED configVars
    /\ UNCHANGED feedVars
    /\ UNCHANGED controlVars
    /\ UNCHANGED stateVars
    /\ UNCHANGED << clockVars, Zones, ZoneStatus, Queue, discoveryVars,
                    scheduleVars, programVars, switchVars, onetimeVars,
                    Requests, LastRequest >>

InitProgram ==
    /\ InitCommon
    /\ InitSwitchedOn
    /\ LastRequest = NoRequest
    /\ Zones \in ZoneTables
    /\ OneTimeSchedules = << >>
    /\ StateInit
    /\ IntervalInit
    /\ ConfigInit
    /\ FeedIdle
    /\ ControlInit
    /\ \E value \in IndexValues \cup {NoIndex.ProgramIndex},
          age \in IndexAges :
          IF age = 0
          THEN InitIndex
          ELSE /\ ProgramIndex = value
               /\ ProgramIndexTimestamp = StartTime - age
               /\ SprinklerIndexIdle

NextProgram ==
    \/ program_activate_call
    \/ housesprinkler_program_set_index

SpecProgram == InitProgram /\ [][NextProgram]_vars

-----------------------------------------------------------------------------
(* The control points of a plant with two feeds and no zone.               *)

\* Two feeds, none manual, the first one followed by the second; the
\* second one ends the chain or leads back to the first.
PlantTables ==
    {T \in FeedTables :
        /\ Len(T) = 2
        /\ T[1].next = FeedNames[2]
        /\ T[2].next \in {"", FeedNames[1]}
        /\ \A i \in 1 .. 2 : ~T[i].manual}

\* A zone pulse starts: the zone scheduler, not busy with an earlier pulse,
\* activates the feed chain of the zone for the length of the pulse.
feed_activate_call ==
    /\ FeedReturned
    /\ Served
    /\ ~ZoneBusyAt(now, ZonesBusy)
    /\ \E i \in 1 .. FeedCount, pulse \in FeedPulses :
          /\ feedName' = Feed[i].name
          /\ feedPulse' = pulse
          /\ ZonesBusy' = now + pulse + ZoneIndexValvePause
          /\ LastRequest' = [route |-> "pulse", name |-> Feed[i].name,
                             pulse |-> pulse]
    /\ feedPrevious' = ""
    /\ feedLoop' = 0
    /\ feedPc' = "loop"
    /\ feedVisits' = 0
    /\ feedStarts' = << >>
    /\ UNCHANGED indexVars
    /\ UNCHANGED configVars
    /\ UNCHANGED stateVars
    /\ UNCHANGED << Feed, controlVars, clockVars, Zones, ZoneStatus, Queue,
                    discoveryVars, ZoneActive, ZoneRequests, ZoneLastOn,
                    Dispatched, programVars, switchVars, onetimeVars >>

\* housesprinkler_control_result: the reply to a start or stop request.  A
\* redirection that is not resolved yet submits the request again and
\* changes nothing.
housesprinkler_control_result ==
    \E i \in ControlIndex, status \in {200, 500} :
       /\ FeedReturned
       /\ ControlRequests[i] > 0
       /\ ControlRequests' = [ControlRequests EXCEPT ![i] = @ - 1]
       /\ Controls' = IF status # 200
                       THEN [Controls EXCEPT ![i].status = "e",
                                             ![i].deadline = 0]
                       ELSE Controls
       /\ UNCHANGED << ControlsActive, ControlDiscovery, ControlStarted,
                       ControlStopped >>
       /\ UNCHANGED configVars
       /\ UNCHANGED feedVars
       /\ UNCHANGED indexVars
       /\ UNCHANGED stateVars
       /\ UNCHANGED << clockVars, Zones, ZoneStatus, Queue, discoveryVars,
                       scheduleVars, programVars, switchVars, onetimeVars,
                       Requests, LastRequest >>

\* What a reply to a status request may hold: an error or no control data,
\* or the names of the points of the server, which hosts them all.
ControlReplies ==
    {[kind |-> "error", found |-> {}],
     [kind |-> "ok", found |-> {Controls[i].name : i \in ControlIndex}]}

\* housesprinkler_control_discovered: the reply to a status request.
housesprinkler_control_discovered ==
    \E reply \in ControlReplies :
       /\ FeedReturned
       /\ ControlDiscovery.requests > 0
       /\ ControlDiscovery' = [ControlDiscovery EXCEPT !.requests = @ - 1]
       /\ Controls' =
             [i \in ControlIndex |->
                IF /\ reply.kind = "ok"
                   /\ Controls[i].name \in reply.found
                   /\ Controls[i].url # ControlProvider
                THEN [Controls[i] EXCEPT !.url = ControlProvider,
                                         !.status = "i"]
                ELSE Controls[i]]
       /\ UNCHANGED << ControlsActive, ControlRequests, ControlStarted,
                       ControlStopped >>
       /\ UNCHANGED configVars
       /\ UNCHANGED feedVars
       /\ UNCHANGED indexVars
       /\ UNCHANGED stateVars
       /\ UNCHANGED << clockVars, Zones, ZoneStatus, Queue, discoveryVars,
                       scheduleVars, programVars, switchVars, onetimeVars,
                       Requests, LastRequest >>

InitControl ==
    /\ InitCommon
    /\ InitSwitchedOn
    /\ InitIndex
    /\ LastRequest = NoRequest
    /\ Zones = << >>
    /\ OneTimeSchedules = << >>
    /\ StateInit
    /\ IntervalInit
    /\ ConfigInit
    /\ Feed \in PlantTables
    /\ feedName = ""
    /\ feedPulse = 0
    /\ feedPrevious = ""
    /\ feedLoop = 0
    /\ feedPc = "done"
    /\ feedVisits = 0
    /\ feedStarts = << >>
    /\ ControlInit

NextControl ==
    \/ Advance
    \/ hs_background
    \/ sprinkler_zone_off
    \/ feed_activate_call
    \/ housesprinkler_feed_activate
    \/ housesprinkler_control_result
    \/ housesprinkler_control_discovered

SpecControl == InitControl /\ [][NextControl]_vars

\* The main loop calls hs_background in every second, the seconds pass,
\* and a feed activation that has begun runs until it returns.
SpecControlTicks ==
    /\ SpecControl
    /\ WF_vars(Advance)
    /\ WF_vars(hs_background)
    /\ WF_vars(housesprinkler_feed_activate)

-----------------------------------------------------------------------------
(* The one-time schedules (housesprinkler_schedule.c).                     *)

\* The one-time schedules that the startup restore may have found: none,
\* one that is due soon, two for the same program, one that is not due
\* within the run.
PendingOneTime ==
    { << >>,
      << [program |-> "back", start |-> StartTime + 1] >>,
      << [program |-> "back", start |-> StartTime + 1],
         [program |-> "back", start |-> StartTime + 2] >>,
      << [program |-> "back", start |-> StartTime + 5] >> }

\* The UUIDs that housesprinkler_schedule_again is called with.
AgainIds == {"uuid0", "unknown"}

\* housesprinkler_schedule_again (uuid).
housesprinkler_schedule_again ==
    /\ Served
    /\ \E uuid \in AgainIds :
          /\ LastRequest' = [route |-> "again", name |-> uuid, pulse |-> 0]
          /\ IF SprinklerOn
                /\ \E j \in 0 .. (SchedulesCount - 1) : ScheduleId[j] = uuid
             THEN \E j \in {CHOOSE j \in 0 .. (SchedulesCount - 1) :
                               /\ ScheduleId[j] = uuid
                               /\ \A k \in 0 .. (SchedulesCount - 1) :
                                     ScheduleId[k] = uuid => j <= k} :
                  /\ OneTimeSchedules' =
                        OneTimeAgain(OneTimeSchedules, j, now)
                  /\ StateDataHasChanged' =
                        housesprinkler_state_changed(StateDataHasChanged,
                                                     now)
             ELSE UNCHANGED << OneTimeSchedules, StateDataHasChanged >>
    /\ UNCHANGED configVars
    /\ UNCHANGED feedVars
    /\ UNCHANGED indexVars
    /\ UNCHANGED controlVars
    /\ UNCHANGED << ShareStateData, BackupInText, BackupOutBuffer,
                    BackupOutBufferSize, BackupFile, StateSaved >>
    /\ UNCHANGED << clockVars, Zones, ZoneStatus, Queue, discoveryVars,
                    scheduleVars, programVars, switchVars,
                    ScheduleLastlaunch, ScheduleLastMinute >>

InitSchedule ==
    /\ InitCommon
    /\ InitSwitchedOn
    /\ InitIndex
    /\ LastRequest = NoRequest
    /\ Zones \in ZoneTables
    /\ OneTimeSchedules \in PendingOneTime
    /\ StateInit
    /\ IntervalInit
    /\ ConfigInit
    /\ FeedIdle
    /\ ControlInit

NextSchedule ==
    \/ Advance
    \/ hs_background
    \/ sprinkler_zone_off
    \/ sprinkler_onoff
    \/ housesprinkler_schedule_again

\* The evaluation of the schedules, with requests received at any time.
SpecSchedule == InitSchedule /\ [][NextSchedule]_vars

-----------------------------------------------------------------------------
(* The interval of a recurring schedule, followed from day to day.         *)

\* The .interval items that the configuration may hold.
ConfiguredIntervals == {0, 1, 2, 3, 130, 258}

\* The value that a char holds after an int was assigned to it.  Whether
\* char is signed depends on the platform.
CharValue(n, signed) ==
    LET m == n % 256 IN IF signed /\ m >= 128 THEN m - 256 ELSE m

\* housesprinkler_schedule_refresh: what Schedules[i].interval may hold for
\* the item n.
LoadedIntervals(n) == {CharValue(n, signed) : signed \in BOOLEAN}

\* The first 06:00:00 after the second t.
NextMorningAfter(t) ==
    LET today == (t - (t % Day)) + (6 * 3600)
    IN IF today > t THEN today ELSE today + Day

\* The clock reaches 06:00:00 of the next day.  The watering of the day
\* before is over: the queue is empty and housesprinkler_program_periodic
\* has found the zones idle.
NextMorning ==
    /\ FeedReturned
    /\ LastCall = now
    /\ now < StartTime + (MaxDays * Day)
    /\ now' = NextMorningAfter(now)
    /\ Queue' = << >>
    /\ ZoneActive' = 0
    /\ ZonesBusy' = 0
    /\ ProgramRunning' = [i \in ProgramIndexSet |-> FALSE]
    /\ UNCHANGED configVars
    /\ UNCHANGED feedVars
    /\ UNCHANGED indexVars
    /\ UNCHANGED stateVars
    /\ UNCHANGED controlVars
    /\ UNCHANGED << LastCall, DelayConfigDiscovery, Zones, ZoneStatus,
                    discoveryVars, ZoneRequests, ZoneLastOn, Dispatched,
                    ProgramLastlaunch, ProgramLastMinute, ProgramLaunched,
                    switchVars, onetimeVars, Requests, LastRequest >>

InitInterval ==
    /\ InitCommon
    /\ InitSwitchedOn
    /\ InitIndex
    /\ LastRequest = NoRequest
    /\ Zones \in ZoneTables
    /\ OneTimeSchedules = << >>
    /\ StateInit
    /\ FeedIdle
    /\ ControlInit
    /\ ConfigInit
    /\ \E n \in ConfiguredIntervals :
          /\ ConfiguredInterval = [i \in 0 .. (SchedulesCount - 1) |-> n]
          /\ ScheduleInterval \in
                {[i \in 0 .. (SchedulesCount - 1) |-> c] :
                    c \in LoadedIntervals(n)}

NextInterval ==
    \/ NextMorning
    \/ hs_background

\* The evaluation of a schedule with an interval, once every morning.
SpecInterval == InitInterval /\ [][NextInterval]_vars

-----------------------------------------------------------------------------
(* The persistent state: save, depot publications and restore.             *)

\* The state texts that the depot may publish, or that the local file may
\* hold at startup.  The one named "cut" is not valid JSON.
PublicationText ==
    [id \in {"on", "other", "anyhost", "off", "full", "cut", "stale"} |->
        CASE id = "on" ->
                << OpenBrace, Unit("host", "string", ThisHost),
                   Unit("on", "bool", TRUE), CloseBrace >>
          [] id = "other" ->
                << OpenBrace, Unit("host", "string", "other"),
                   Unit("on", "bool", TRUE), CloseBrace >>
          [] id = "anyhost" ->
                << OpenBrace, Unit("on", "bool", TRUE), CloseBrace >>
          [] id = "off" ->
                << OpenBrace, Unit("host", "string", ThisHost),
                   Unit("on", "bool", FALSE), CloseBrace >>
          [] id = "full" ->
                << OpenBrace, Unit("host", "string", ThisHost),
                   Unit("on", "bool", TRUE),
                   Unit("raindelay", "integer", StartTime + 100),
                   Unit("once", "array",
                        << [program |-> "back", start |-> StartTime + 60] >>),
                   Unit("schedule", "array",
                        << [id |-> "uuid0", program |-> "back",
                            launched |-> StartTime - Day] >>),
                   CloseBrace >>
          [] id = "stale" ->
                << OpenBrace, Unit("host", "string", ThisHost),
                   Unit("on", "bool", FALSE),
                   Unit("once", "array",
                        << [program |-> "back", start |-> StartTime + 60],
                           [program |-> "front",
                            start |-> StartTime - (4 * Day)] >>),
                   CloseBrace >>
          [] OTHER ->
                << OpenBrace, Unit("host", "string", ThisHost) >>]

Publications == {"on", "other", "off", "full", "cut"}

\* The local state files that the program may find when it starts; "" when
\* there is none, and the factory file is loaded instead.
StateFiles == {"", "on", "other"}

\* The factory state file.
FactoryBackupFile == PublicationText["anyhost"]

\* The clock of the state module reaches the next second.  The loop calls
\* housesprinkler_state_periodic at least once in every second.
StateSecond ==
    /\ LastCall = now
    /\ now < StartTime + MaxSeconds
    /\ now' = now + 1
    /\ UNCHANGED configVars
    /\ UNCHANGED feedVars
    /\ UNCHANGED indexVars
    /\ UNCHANGED stateVars
    /\ UNCHANGED controlVars
    /\ UNCHANGED << LastCall, DelayConfigDiscovery, Zones, ZoneStatus, Queue,
                    discoveryVars, scheduleVars, programVars, switchVars,
                    onetimeVars, Requests, LastRequest >>

\* housesprinkler_state_periodic (now): the first call of the second now.
\* LastCall is the function's own static variable here.
housesprinkler_state_periodic ==
    /\ now # LastCall
    /\ LastCall' = now
    /\ IF StateDataHasChanged = 0
       THEN UNCHANGED stateVars
       ELSE IF StateGiveUp(StateDataHasChanged, now)
       THEN /\ StateDataHasChanged' = 0
            /\ UNCHANGED << ShareStateData, BackupInText, BackupOutBuffer,
                            BackupOutBufferSize, BackupFile, StateSaved >>
       ELSE IF StateDebounced(StateDataHasChanged, now)
       THEN \E F \in {housesprinkler_state_format(Memory,
                                                  BackupOutBufferSize)} :
            \E outcome \in SaveOutcomes :
               /\ BackupOutBuffer' = F.BackupOutBuffer
               /\ BackupOutBufferSize' = F.BackupOutBufferSize
               /\ BackupFile' = SaveFile(BackupFile, F.BackupOutBuffer,
                                         outcome, F.cursor)
               /\ StateSaved' = [at |-> now, size |-> F.cursor,
                                 written |-> SaveResult(outcome, F.cursor),
                                 origin |-> "periodic",
                                 shared |-> ShareStateData]
               /\ StateDataHasChanged' =
                     IF SaveResult(outcome, F.cursor) = F.cursor THEN 0
                     ELSE StateDataHasChanged
               /\ UNCHANGED << ShareStateData, BackupInText >>
       ELSE UNCHANGED stateVars
    /\ UNCHANGED configVars
    /\ UNCHANGED feedVars
    /\ UNCHANGED indexVars
    /\ UNCHANGED controlVars
    /\ UNCHANGED << now, DelayConfigDiscovery, Zones, ZoneStatus, Queue,
                    discoveryVars, scheduleVars, programVars, switchVars,
                    onetimeVars, Requests, LastRequest >>

\* housesprinkler_state_listener: the depot publishes state/sprinkler.json.
\* The listener of the schedule module, housesprinkler_schedule_restore,
\* is called when the text is valid.
housesprinkler_state_listener ==
    /\ Served
    /\ Requests < MaxPublications
    /\ \E id \in Publications, outcome \in SaveOutcomes :
       \E data \in {PublicationText[id]} :
          /\ LastRequest' = [route |-> "depot", name |-> id,
                              pulse |-> Chars(data)]
          /\ BackupInText' = housesprinkler_state_new(data)
          /\ IF ~JsonValid(data)
             THEN UNCHANGED << BackupOutBuffer, BackupOutBufferSize,
                               BackupFile, StateSaved, ShareStateData,
                               SprinklerOn, RainDelay, OneTimeSchedules,
                               ScheduleLastlaunch, ProgramLastlaunch >>
             ELSE /\ RestoreReturns(data, now)
                  /\ IF BackupOutBufferSize < Chars(data)
                     THEN /\ BackupOutBuffer' = data \o << NullChar >>
                          /\ BackupOutBufferSize' = Chars(data)
                     ELSE /\ BackupOutBuffer' =
                                Snprintf(BackupOutBuffer,
                                         BackupOutBufferSize, data)
                          /\ UNCHANGED BackupOutBufferSize
                  /\ BackupFile' = SaveFile(BackupFile, BackupOutBuffer',
                                            outcome, Chars(data))
                  /\ StateSaved' = [at |-> now, size |-> Chars(data),
                                    written |->
                                        SaveResult(outcome, Chars(data)),
                                    origin |-> "depot", shared |-> FALSE]
                  /\ \E m \in {housesprinkler_schedule_restore(
                                   Memory, data, now)} :
                        /\ SprinklerOn' = m.SprinklerOn
                        /\ ShareStateData' = m.ShareStateData
                        /\ RainDelay' = m.RainDelay
                        /\ OneTimeSchedules' = m.OneTimeSchedules
                        /\ ScheduleLastlaunch' = m.ScheduleLastlaunch
                        /\ ProgramLastlaunch' = m.ProgramLastlaunch
    /\ UNCHANGED StateDataHasChanged
    /\ UNCHANGED configVars
    /\ UNCHANGED feedVars
    /\ UNCHANGED indexVars
    /\ UNCHANGED controlVars
    /\ UNCHANGED << clockVars, Zones, ZoneStatus, Queue, discoveryVars,
                    scheduleVars, ProgramRunning, ProgramLastMinute,
                    ProgramLaunched, RainDelayEnabled, ScheduleLastMinute >>

\* The program has started: housesprinkler_state_load has read the local
\* file, or the factory file when there is none, and the schedule module
\* has restored its state from it.
InitState ==
    /\ InitCommon
    /\ InitIndex
    /\ IntervalInit
    /\ ConfigInit
    /\ LastRequest = NoRequest
    /\ Zones = << >>
    /\ FeedIdle
    /\ ControlInit
    /\ BackupOutBuffer = << >>
    /\ BackupOutBufferSize = 0
    /\ StateSaved = NoSave
    /\ \E file \in StateFiles :
          /\ BackupFile = IF file = "" THEN << >> ELSE PublicationText[file]
          /\ BackupInText = IF file = "" THEN FactoryBackupFile
                            ELSE PublicationText[file]
          /\ StateDataHasChanged = IF file = "" THEN StartTime ELSE 0
    /\ \E m \in {housesprinkler_schedule_restore(
                     FreshMemory, BackupInText, StartTime)} :
          /\ SprinklerOn = m.SprinklerOn
          /\ ShareStateData = m.ShareStateData
          /\ RainDelay = m.RainDelay
          /\ OneTimeSchedules = m.OneTimeSchedules
          /\ ScheduleLastlaunch = m.ScheduleLastlaunch
          /\ ProgramLastlaunch = m.ProgramLastlaunch

NextState ==
    \/ StateSecond
    \/ housesprinkler_state_periodic
    \/ housesprinkler_state_listener
    \/ sprinkler_onoff

\* The persistent state while the state changes and the depot publishes.
SpecState == InitState /\ [][NextState]_vars

-----------------------------------------------------------------------------
(* The state text of a memory with many one-time schedules.                *)

\* The number of one-time schedules that were requested and wait for their
\* start.
MaxOneTime == 28

\* The one-time schedules that wait: count requests for the same program,
\* one minute ahead.
WaitingOneTime(count) ==
    [i \in 1 .. count |-> [program |-> "back", start |-> StartTime + 60]]

\* The program runs with a state that has changed in the startup second
\* and was not saved yet.
InitFormat ==
    /\ InitCommon
    /\ InitIndex
    /\ IntervalInit
    /\ ConfigInit
    /\ LastRequest = NoRequest
    /\ Zones = << >>
    /\ FeedIdle
    /\ ControlInit
    /\ SprinklerOn \in BOOLEAN
    /\ ShareStateData = SprinklerOn
    /\ RainDelay \in {0, StartTime + 100}
    /\ ScheduleLastlaunch = [i \in 0 .. (SchedulesCount - 1) |-> 0]
    /\ ProgramLastlaunch = [i \in ProgramIndexSet |-> 0]
    /\ \E count \in 0 .. MaxOneTime :
          OneTimeSchedules = WaitingOneTime(count)
    /\ StateDataHasChanged = StartTime
    /\ BackupInText = << >>
    /\ BackupOutBuffer = << >>
    /\ BackupOutBufferSize = 0
    /\ BackupFile = << >>
    /\ StateSaved = NoSave

NextFormat ==
    \/ StateSecond
    \/ housesprinkler_state_periodic

\* The saves of a state that has changed, for every number of one-time
\* schedules.
SpecFormat == InitFormat /\ [][NextFormat]_vars

-----------------------------------------------------------------------------
(* The configuration is posted while the service runs.                     *)

\* The texts that a POST to /sprinkler/config may carry: a string of less
\* than 10 characters, a text with a JSON error, and two configurations
\* that differ by their zone tables.
ConfigPosts == {"short", "broken", "slope", "drip"}

\* The text is at least 10 characters long and starts with a brace.
ConfigStringOk(text) == text # "short"

\* echttp_json_parse finds no error in the text.
ConfigJsonOk(text) == text \notin {"short", "broken"}

\* The zone table of a configuration text.
ConfigZones(text) ==
    CHOOSE table \in ZoneTables : table[2].name = text

\* housesprinkler_config_parse (text): the tokens are parsed in place, over
\* those of the configuration in effect.
housesprinkler_config_parse(text) ==
    [text |-> text, error |-> ~ConfigJsonOk(text)]

\* housesprinkler_config_save (text): the error returned ("" when there is
\* none) and the configuration module afterwards.  fileok: the
\* configuration file could be opened for writing.
housesprinkler_config_save(text, fileok) ==
    LET same == [error |-> "", ConfigText |-> ConfigText,
                 ConfigParsed |-> ConfigParsed, ConfigFile |-> ConfigFile]
    IN
    IF ~ConfigStringOk(text)
    THEN [same EXCEPT !.error = "invalid string"]
    ELSE IF housesprinkler_config_parse(text).error
    THEN [same EXCEPT !.error = "JSON error",
                      !.ConfigParsed = housesprinkler_config_parse(text)]
    ELSE IF ~fileok
    THEN [same EXCEPT !.error = "cannot save to file",
                      !.ConfigText = text,
                      !.ConfigParsed = housesprinkler_config_parse(text)]
    ELSE [same EXCEPT !.ConfigText = text,
                      !.ConfigParsed = housesprinkler_config_parse(text),
                      !.ConfigFile = text]

\* sprinkler_config: POST /sprinkler/config.  When the text was saved,
\* sprinkler_refresh reloads every table from the tokens: the servers and
\* the zones are unknown again and the queue is empty
\* (housesprinkler_zone_refresh), no program is running and none has a
\* latest launch (housesprinkler_program_refresh), the schedules keep the
\* latest launch of the schedule with the same id
\* (housesprinkler_schedule_refresh); then sprinkler_reset forces a
\* discovery.  ZoneActive and ZonesBusy are local to
\* housesprinkler_zone_schedule: they are not reset, and the replies to the
\* requests submitted before are still to come.  The feeds are declared
\* again as control points (housesprinkler_control_reset,
\* housesprinkler_feed_refresh).
sprinkler_config ==
    /\ FeedReturned
    /\ Served
    /\ \E text \in ConfigPosts, fileok \in BOOLEAN :
       \E saved \in {housesprinkler_config_save(text, fileok)} :
          /\ LastRequest' = [route |-> "config", name |-> saved.error,
                              pulse |-> 0]
          /\ ConfigText' = saved.ConfigText
          /\ ConfigParsed' = saved.ConfigParsed
          /\ ConfigFile' = saved.ConfigFile
          /\ IF saved.error # ""
             THEN UNCHANGED << Zones, ZoneStatus, ZoneServer, ServerStatus,
                               Queue, ZoneActiveFreed, ZoneRequestsFreed,
                               ProgramRunning, ProgramLastlaunch,
                               ScheduleInterval, Controls, ControlsActive,
                               ControlDiscovery >>
             ELSE /\ Zones' = ConfigZones(saved.ConfigParsed.text)
                  /\ ZoneStatus' = [i \in 1 .. 2 |-> "u"]
                  /\ ZoneServer' = [i \in 1 .. 2 |-> 0]
                  /\ ServerStatus' = [i \in 1 .. ServersCount |-> "u"]
                  /\ Queue' = << >>
                  /\ ZoneActiveFreed' = (ZoneActive # 0)
                  /\ ZoneRequestsFreed' =
                        [i \in 1 .. 2 |-> ZoneRequests[i] > 0]
                  /\ Controls' = ControlsLoaded(Feed).Controls
                  /\ ControlsActive' =
                        (ControlsActive /\ Len(Controls') = 0)
                  /\ ControlDiscovery' =
                        IF Len(Controls') = 0 THEN ControlDiscovery
                        ELSE [ControlDiscovery EXCEPT !.latestdiscovery = 0]
                  /\ ProgramRunning' = [i \in ProgramIndexSet |-> FALSE]
                  /\ ProgramLastlaunch' = [i \in ProgramIndexSet |-> 0]
                  /\ ScheduleInterval' \in
                        {[i \in 0 .. (SchedulesCount - 1) |-> c] :
                            c \in LoadedIntervals(ConfiguredInterval[0])}
    /\ UNCHANGED << ConfiguredInterval, LastReply, ZonePulses, RestoreLoop >>
    /\ UNCHANGED feedVars
    /\ UNCHANGED indexVars
    /\ UNCHANGED stateVars
    /\ UNCHANGED << ControlRequests, ControlStarted, ControlStopped >>
    /\ UNCHANGED << clockVars, starting, latestdiscovery, ServerRequests,
                    scheduleVars, ProgramLastMinute, ProgramLaunched,
                    switchVars, onetimeVars >>

\* The service starts with the lawn and slope zones.
InitReload ==
    /\ InitCommon
    /\ InitSwitchedOn
    /\ InitIndex
    /\ LastRequest = NoRequest
    /\ Zones = ConfigZones("slope")
    /\ OneTimeSchedules = << >>
    /\ StateInit
    /\ IntervalInit
    /\ ConfigInit
    /\ FeedIdle
    /\ ControlInit

NextReload ==
    \/ Advance
    \/ hs_background
    \/ sprinkler_zone_on
    \/ housesprinkler_zone_controlled
    \/ housesprinkler_zone_discovered
    \/ sprinkler_config

\* The zones are activated while the configuration is posted.
SpecReload == InitReload /\ [][NextReload]_vars

-----------------------------------------------------------------------------
(* The replies to the start requests, recorded.                            *)

\* housesprinkler_zone_controlled, the reply being recorded.
zone_controlled_reply ==
    \E zone \in 1 .. 2, status \in ReplyStatus :
    \E target \in ControlledTargets(zone) :
       /\ ZoneControlled(zone, status, target)
       /\ LastReply' = [zone |-> zone, status |-> status, target |-> target]

NextReply ==
    \/ Advance
    \/ hs_background
    \/ sprinkler_zone_on
    \/ sprinkler_zone_off
    \/ zone_controlled_reply
    \/ housesprinkler_zone_discovered

\* The zones are activated and the control server answers every start
\* request.
SpecReply == InitZone /\ [][NextReply]_vars

-----------------------------------------------------------------------------
(* The watering index (housesprinkler_index.c) and the replies of its      *)
(* servers.                                                                *)

MaxHours == 3

\* The limits .adjust.min and .adjust.max of a server in the configuration
\* (0: not provided).
AdjustConfigs == {<< 0, 0 >>, << 50, 120 >>, << 110, 0 >>}

\* The index values that a server may reply.
RawIndexes == {0, 80, 100, 130, 200}

\* housesprinkler_index_refresh: the limits of a server; if none is
\* provided, reasonable numbers are used.
IndexAdjust(config) ==
    [adjust |-> << IF config[1] <= 0 THEN 0 ELSE config[1],
                   IF config[2] <= 0 THEN 150 ELSE config[2] >>]

\* housesprinkler_index_response: the index after the reply rawindex of
\* that server.
IndexAdjusted(index, server, rawindex) ==
    IF index < server.adjust[1] THEN server.adjust[1]
    ELSE IF index > server.adjust[2] THEN server.adjust[2]
    ELSE rawindex

\* housesprinkler_index_response: the reply of a server to the query of
\* housesprinkler_index_query.  The listener of the program module is
\* called with the index received.
housesprinkler_index_response ==
    /\ \E server \in 1 .. Len(IndexServers), status \in ReplyStatus,
          valid \in BOOLEAN, rawindex \in RawIndexes :
          IF \/ SprinklerIndexTimestamp > now - 3600
             \/ status # 200
             \/ ~valid
          THEN UNCHANGED indexVars
          ELSE /\ SprinklerIndex' =
                     IndexAdjusted(SprinklerIndex, IndexServers[server],
                                   rawindex)
               /\ SprinklerIndexTimestamp' = now
               /\ SprinklerIndexOrigin' = server
               /\ ProgramIndex' = SprinklerIndex'
               /\ ProgramIndexTimestamp' = SprinklerIndexTimestamp'
               /\ UNCHANGED IndexServers
    /\ UNCHANGED configVars
    /\ UNCHANGED feedVars
    /\ UNCHANGED controlVars
    /\ UNCHANGED stateVars
    /\ UNCHANGED << clockVars, Zones, ZoneStatus, Queue, discoveryVars,
                    scheduleVars, programVars, switchVars, onetimeVars,
                    Requests, LastRequest >>

\* An hour passes: the index becomes old enough for the next reply to be
\* taken.
IndexHour ==
    /\ now < StartTime + (MaxHours * 3600)
    /\ \E seconds \in {1800, 3600} : now' = now + seconds
    /\ UNCHANGED configVars
    /\ UNCHANGED feedVars
    /\ UNCHANGED indexVars
    /\ UNCHANGED stateVars
    /\ UNCHANGED controlVars
    /\ UNCHANGED << LastCall, DelayConfigDiscovery, Zones, ZoneStatus, Queue,
                    discoveryVars, scheduleVars, programVars, switchVars,
                    onetimeVars, Requests, LastRequest >>

InitWateringIndex ==
    /\ InitCommon
    /\ InitSwitchedOn
    /\ LastRequest = NoRequest
    /\ Zones \in ZoneTables
    /\ OneTimeSchedules = << >>
    /\ StateInit
    /\ IntervalInit
    /\ ConfigInit
    /\ FeedIdle
    /\ ControlInit
    /\ ProgramIndex = NoIndex.ProgramIndex
    /\ ProgramIndexTimestamp = NoIndex.ProgramIndexTimestamp
    /\ SprinklerIndex = 100
    /\ SprinklerIndexTimestamp = 0
    /\ SprinklerIndexOrigin = 0
    /\ \E first \in AdjustConfigs, second \in AdjustConfigs :
          IndexServers = << IndexAdjust(first), IndexAdjust(second) >>

NextWateringIndex == IndexHour \/ housesprinkler_index_response

SpecIndex == InitWateringIndex /\ [][NextWateringIndex]_vars

-----------------------------------------------------------------------------
(* The pulses of the zones that the program module has activated, followed *)
(* until the queue is empty.                                               *)

MaxPulseRuntime == 5

\* The activations occur in the first seconds.
MaxActivationTicks == 2

MaxActivations == 2

\* The clock is followed for longer than the two zones need for their
\* runtime, the pauses after each pulse included.
PulseTicks == MaxActivationTicks + (4 * MaxPulseRuntime) + 7

\* The runtimes of the activations.
PulseRuntimes == {MaxPulseRuntime - 3, MaxPulseRuntime}

PulseTables ==
    { << [name |-> "lawn",  pulse |-> 2, pause |-> 1, manual |-> FALSE],
         [name |-> "slope", pulse |-> 3, pause |-> 0, manual |-> FALSE] >>,
      << [name |-> "lawn",  pulse |-> 2, pause |-> 1, manual |-> FALSE],
         [name |-> "drip",  pulse |-> 0, pause |-> 2, manual |-> TRUE] >> }

\* The runtime left in the queue for a zone.
QueueRuntime(Q, zone) ==
    IF QueuePosition(Q, zone) = 0 THEN 0
    ELSE Q[QueuePosition(Q, zone)].runtime

\* The record of the activations and starts of one step: the start is the
\* call of housesprinkler_zone_start that the step has logged, and an
\* activation is what the step has added to the runtime of a zone.
RecordPulses(zone) ==
    LET start == IF Dispatched' # Dispatched /\ Dispatched'.zone = zone
                 THEN << Dispatched'.pulse >> ELSE << >>
        taken == IF start = << >> THEN 0 ELSE start[1]
        added == QueueRuntime(Queue', zone)
                    - (QueueRuntime(Queue, zone) - taken)
    IN [activations |-> ZonePulses[zone].activations
                           + (IF added > 0 THEN 1 ELSE 0),
        total |-> ZonePulses[zone].total + added,
        pulses |-> ZonePulses[zone].pulses \o start]

\* hs_background, its activations and starts being recorded.
hs_background_pulses ==
    /\ Background
    /\ ZonePulses' = [zone \in 1 .. 2 |-> RecordPulses(zone)]

\* housesprinkler_zone_activate (name, runtime, manual), as the program
\* module calls it for a zone of a program that is started.
zone_activate_call ==
    /\ Requests < MaxActivations
    /\ Served
    /\ now <= StartTime + MaxActivationTicks
    /\ \E name \in ZoneNames, runtime \in PulseRuntimes, manual \in BOOLEAN :
          /\ Queue' = housesprinkler_zone_activate(
                          Queue, name, runtime, manual,
                          [program |-> "call", manual |-> FALSE], now)
          /\ \A i \in 1 .. Len(Queue') :
                Queue'[i].runtime <= MaxPulseRuntime
    /\ UNCHANGED << intervalVars, ConfigText, ConfigParsed, ConfigFile,
                    ZoneActiveFreed, ZoneRequestsFreed, LastReply,
                    RestoreLoop >>
    /\ UNCHANGED feedVars
    /\ UNCHANGED indexVars
    /\ UNCHANGED stateVars
    /\ UNCHANGED controlVars
    /\ UNCHANGED << clockVars, Zones, ZoneStatus, discoveryVars, scheduleVars,
                    programVars, switchVars, onetimeVars, LastRequest >>
    /\ ZonePulses' = [zone \in 1 .. 2 |-> RecordPulses(zone)]

\* The clock reaches the next second, hs_background was called in this one.
PulseSecond ==
    /\ LastCall = now
    /\ now < StartTime + PulseTicks
    /\ now' = now + 1
    /\ UNCHANGED configVars
    /\ UNCHANGED feedVars
    /\ UNCHANGED indexVars
    /\ UNCHANGED stateVars
    /\ UNCHANGED controlVars
    /\ UNCHANGED << LastCall, DelayConfigDiscovery, Zones, ZoneStatus, Queue,
                    discoveryVars, scheduleVars, programVars, switchVars,
                    onetimeVars, Requests, LastRequest >>

InitPulse ==
    /\ InitCommon
    /\ InitSwitchedOn
    /\ InitIndex
    /\ LastRequest = NoRequest
    /\ Zones \in PulseTables
    /\ OneTimeSchedules = << >>
    /\ StateInit
    /\ IntervalInit
    /\ ConfigInit
    /\ FeedIdle
    /\ ControlInit

NextPulse ==
    \/ PulseSecond
    \/ hs_background_pulses
    \/ zone_activate_call
    \/ housesprinkler_zone_discovered

SpecPulse == InitPulse /\ [][NextPulse]_vars

\* The main loop calls hs_background in every second, and the seconds pass.
SpecDrain ==
    /\ SpecPulse
    /\ WF_vars(PulseSecond)
    /\ WF_vars(hs_background_pulses)

-----------------------------------------------------------------------------
(* The restore of the one-time schedules from any state text.              *)

\* The state texts of the depot, the state of a system that was switched
\* off for some days included.
RestorePublications == Publications \cup {"stale"}

\* The first element of .once at which the loop of
\* housesprinkler_schedule_restore does not move on.
RestoreStays(text, t) ==
    LET once == JsonArray(text, "once") IN
    CHOOSE i \in 1 .. Len(once) :
       /\ once[i].start < t - OneTimeHorizon
       /\ \A j \in 1 .. (i - 1) : ~(once[j].start < t - OneTimeHorizon)

\* housesprinkler_state_listener with a text for which the loop of
\* housesprinkler_schedule_restore over .once does not end: the text was
\* saved, the switch and the rain delay were restored, the table of the
\* one-time schedules was emptied and the elements before the one that the
\* loop stays at were loaded.  The function does not return.
housesprinkler_schedule_restore_loop ==
    /\ RestoreLoop = 0
    /\ Served
    /\ Requests < MaxPublications
    /\ \E id \in RestorePublications, outcome \in SaveOutcomes :
       \E data \in {PublicationText[id]} :
          /\ JsonValid(data)
          /\ ~RestoreReturns(data, now)
          /\ LastRequest' = [route |-> "depot", name |-> id,
                              pulse |-> Chars(data)]
          /\ BackupInText' = housesprinkler_state_new(data)
          /\ IF BackupOutBufferSize < Chars(data)
             THEN /\ BackupOutBuffer' = data \o << NullChar >>
                  /\ BackupOutBufferSize' = Chars(data)
             ELSE /\ BackupOutBuffer' =
                        Snprintf(BackupOutBuffer, BackupOutBufferSize, data)
                  /\ UNCHANGED BackupOutBufferSize
          /\ BackupFile' = SaveFile(BackupFile, BackupOutBuffer', outcome,
                                    Chars(data))
          /\ StateSaved' = [at |-> now, size |-> Chars(data),
                            written |-> SaveResult(outcome, Chars(data)),
                            origin |-> "depot", shared |-> FALSE]
          /\ \E m \in {housesprinkler_schedule_restore(Memory, data, now)},
                stays \in {RestoreStays(data, now)} :
                /\ SprinklerOn' = m.SprinklerOn
                /\ ShareStateData' = m.ShareStateData
                /\ RainDelay' = m.RainDelay
                /\ OneTimeSchedules' =
                      [i \in 1 .. Len(m.OneTimeSchedules) |->
                          IF i < stays THEN m.OneTimeSchedules[i]
                          ELSE NoOneTime]
                /\ RestoreLoop' = stays
    /\ UNCHANGED << intervalVars, ConfigText, ConfigParsed, ConfigFile,
                    ZoneActiveFreed, ZoneRequestsFreed, LastReply,
                    ZonePulses >>
    /\ UNCHANGED StateDataHasChanged
    /\ UNCHANGED feedVars
    /\ UNCHANGED indexVars
    /\ UNCHANGED controlVars
    /\ UNCHANGED << clockVars, Zones, ZoneStatus, Queue, discoveryVars,
                    scheduleVars, ProgramRunning, ProgramLastlaunch,
                    ProgramLastMinute, ProgramLaunched, RainDelayEnabled,
                    ScheduleLastlaunch, ScheduleLastMinute >>

\* The program does nothing else while it is in the loop.
NextRestore ==
    \/ RestoreLoop = 0 /\ StateSecond
    \/ RestoreLoop = 0 /\ housesprinkler_state_periodic
    \/ RestoreLoop = 0 /\ housesprinkler_state_listener
    \/ RestoreLoop = 0 /\ sprinkler_onoff
    \/ housesprinkler_schedule_restore_loop

SpecRestore == InitState /\ [][NextRestore]_vars

-----------------------------------------------------------------------------
(* The rain delay: the requests that set it, the requests that enable or   *)
(* disable it, the restore from the depot and the periodic evaluation.     *)

\* The service has started with a configuration that has no zone, and with
\* the state of a system that is on.
InitRain ==
    /\ InitCommon
    /\ InitSwitchedOn
    /\ InitIndex
    /\ LastRequest = NoRequest
    /\ Zones = << >>
    /\ OneTimeSchedules = << >>
    /\ StateInit
    /\ IntervalInit
    /\ ConfigInit
    /\ FeedIdle
    /\ ControlInit

NextRain ==
    \/ Advance
    \/ hs_background
    \/ sprinkler_raindelay
    \/ sprinkler_rain
    \/ housesprinkler_state_listener

SpecRain == InitRain /\ [][NextRain]_vars

-----------------------------------------------------------------------------
(* Properties.                                                             *)

\* A call to housesprinkler_zone_start was made in this step.
DispatchStep == Dispatched' # Dispatched

\* The end of the latest pulse that was started with success, plus the index
\* valve pause; 0 before the first one.
BusyUntil ==
    LET on == {z \in ZoneIndex : ZoneLastOn[z] # NoStart} IN
    IF on = {} THEN 0
    ELSE LET last == CHOOSE z \in on :
                        \A y \in on : ZoneLastOn[y].at <= ZoneLastOn[z].at
         IN ZoneLastOn[last].at + ZoneLastOn[last].pulse + ZoneIndexValvePause

PulsesNeverOverlap ==
    [][ /\ ZonesBusy = BusyUntil
        /\ DispatchStep =>
              /\ now > ZonesBusy
              /\ \A z \in ZoneIndex :
                    ZoneLastOn[z] # NoStart =>
                       now > ZoneLastOn[z].at + ZoneLastOn[z].pulse ]_vars

\* C2 witness: a second pulse was started with success after a first one.
TwoPulsesStarted ==
    \E y, z \in ZoneIndex :
       /\ ZoneLastOn[y] # NoStart /\ ZoneLastOn[z] # NoStart
       /\ ZoneLastOn[y].at < ZoneLastOn[z].at

\* C3: the queue holds at most one entry per zone, and no more entries than
\* there are zones.
OneEntryPerZone ==
    /\ QueueNext <= ZonesCount
    /\ \A i, j \in 1 .. QueueNext : Queue[i].zone = Queue[j].zone => i = j

\* C3 witness: a zone that was queued already was activated once more, and
\* every zone is queued.
QueuedZoneActivatedAgain ==
    /\ QueueNext = ZonesCount
    /\ \E i \in 1 .. QueueNext : Cardinality(Queue[i].origins) > 1

\* C4: a /sprinkler/zone/on request for a zone that has a queue entry adds
\* its pulse to the runtime of that entry and adds no entry.
ActivationAccumulates ==
    [][ \A i \in 1 .. QueueNext :
          ( /\ Requests' # Requests
            /\ LastRequest'.route = "zone/on"
            /\ LastRequest'.name = Zones[Queue[i].zone].name )
          => /\ Len(Queue') = Len(Queue)
             /\ Queue'[i].runtime = Queue[i].runtime + LastRequest'.pulse
      ]_vars

\* C5: a zone with a pause is never started before the end of its previous
\* pulse plus its pause.
PauseNeverSkipped ==
    [][ \A z \in ZoneIndex :
          ( /\ ZoneLastOn'[z] # ZoneLastOn[z]
            /\ ZoneLastOn[z] # NoStart
            /\ Zones[z].pause > 0 )
          => ZoneLastOn'[z].at >=
                ZoneLastOn[z].at + ZoneLastOn[z].pulse + Zones[z].pause
      ]_vars

\* C6: a zone start for runtime that only scheduled programs have queued
\* succeeds at a second with now % 60 in {0, 1}.
ScheduledStartsOnTheMinute ==
    [][ ( /\ DispatchStep
          /\ Dispatched'.ok
          /\ \A o \in Dispatched'.origins : o.program # "" /\ ~o.manual )
        => (now % 60) \in {0, 1} ]_vars

\* The zone is in the middle of a pulse.
InPulse(zone) ==
    /\ ZoneLastOn[zone] # NoStart
    /\ now < ZoneLastOn[zone].at + ZoneLastOn[zone].pulse

\* Some zone that program i has queued has runtime left or is in its pulse.
ProgramBusy(i) ==
    \E k \in 1 .. QueueNext :
       /\ \E o \in Queue[k].origins : o.program = Programs[i].name
       /\ (Queue[k].runtime > 0 \/ InPulse(Queue[k].zone))

\* C7: when the periodic functions have run for a second, a program is
\* running if and only if one of its queued zones has runtime left or is in
\* its pulse.
RunningIffZonesPending ==
    [][ (LastCall' # LastCall /\ now >= DelayConfigDiscovery')
        => \A i \in ProgramIndexSet : ProgramRunning'[i] <=> ProgramBusy(i)'
      ]_vars

\* C8: while SprinklerOn is false no periodic evaluation starts a program.
NoLaunchWhileOff ==
    [][ ~SprinklerOn => ProgramLaunched' = ProgramLaunched ]_vars

\* C9: while the rain delay deadline is later than now no periodic
\* evaluation starts a program.
NoLaunchWhileRainDelay ==
    [][ RainDelay > now => ProgramLaunched' = ProgramLaunched ]_vars

\* C10: an activation of a feed chain ends, and it goes through no more
\* feeds than the table has, for any first name and any next fields.
FeedActivationTerminates ==
    /\ <>(feedPc = "done")
    /\ [](feedVisits <= FeedCount)

\* C10 witness: the activation went round a cycle of more than one feed and
\* ended where it met the limit, with a next feed still to go to.
FeedCycleCut ==
    /\ feedPc = "done"
    /\ FeedCount > 1
    /\ feedVisits = FeedCount
    /\ housesprinkler_feed_search(feedName) # 0

\* At a second that housesprinkler_control_periodic has seen, outside
\* housesprinkler_feed_activate.
ControlSettled == LastCall = now /\ FeedReturned

\* C11: every control point with status 'a' has a deadline strictly later
\* than now, and housesprinkler_control_periodic moves a point from 'a' to
\* 'i' only once now has reached or passed its deadline.
ActiveBeforeDeadline ==
    [][/\ ControlSettled' =>
            \A i \in ControlIndex :
               Controls'[i].status = "a" => Controls'[i].deadline > now'
       /\ LastCall' # LastCall =>
            \A i \in ControlIndex :
               (Controls[i].status = "a" /\ Controls'[i].status = "i")
                  => now >= Controls[i].deadline]_vars

\* The second half of C11 alone.
ExpiredAfterDeadline ==
    [][LastCall' # LastCall =>
         \A i \in ControlIndex :
            (Controls[i].status = "a" /\ Controls'[i].status = "i")
               => now >= Controls[i].deadline]_vars

\* A point is active, and no deadline is left to make it idle.
ActiveWithoutDeadline ==
    ~(ControlSettled /\ \E i \in ControlIndex :
         Controls[i].status = "a" /\ Controls[i].deadline = 0)

\* The request served by the step is /sprinkler/zone/off.
ZoneOffStep == Requests' # Requests /\ LastRequest'.route = "zone/off"

\* C12: when /sprinkler/zone/off (housesprinkler_zone_stop, then
\* housesprinkler_control_cancel of all controls) is served while the pulse
\* of a zone is in progress, the queue becomes empty and exactly one
\* state=off request is issued, for the zone of that pulse.
ZoneOffStopsActiveZone ==
    [][\A zone \in ZoneIndex :
          (ZoneOffStep /\ InPulse(zone))
             => /\ Queue' = << >>
                /\ ControlStopped' = << Zones[zone].name >>]_vars

\* The first half of C12 alone.
ZoneOffEmptiesQueue ==
    [][(ZoneOffStep /\ \E zone \in ZoneIndex : InPulse(zone))
          => Queue' = << >>]_vars

\* housesprinkler_control_start has sent a request for control i in the
\* step.
ControlStartStep(i) == ControlStarted'[i] # ControlStarted[i]

\* C13: a start request is never issued for a control point while the pulse
\* started before on the same point has not reached its deadline; that
\* holds for a feed that serves several zones and is held open by its
\* linger.
NoStartBeforeDeadline ==
    [][\A i \in ControlIndex :
          ControlStartStep(i) => ~(Controls[i].deadline > now)]_vars

\* housesprinkler_control_cancel (0) has run and no control was started
\* since.
Cancelled ==
    /\ LastRequest.route = "zone/off"
    /\ \A i \in ControlIndex : ControlStarted[i] = NoControlStart

\* The reply to a request for some control is delivered in the step.
ControlReplyStep == \E i \in ControlIndex :
                       ControlRequests'[i] < ControlRequests[i]

\* C14: after housesprinkler_control_cancel (0) every control point has
\* deadline 0 and none has status 'a', and the reply to an earlier start or
\* stop request that is delivered afterwards, 200 or not, leaves the status
\* and the deadline of every control point as they are until the next start.
CancelledStaysIdle ==
    [][/\ ZoneOffStep =>
            \A i \in ControlIndex :
               Controls'[i].deadline = 0 /\ Controls'[i].status # "a"
       /\ (Cancelled /\ ControlReplyStep) =>
            \A i \in ControlIndex :
               /\ Controls'[i].status = Controls[i].status
               /\ Controls'[i].deadline = Controls[i].deadline]_vars

\* The part of C14 about the deadlines alone.
CancelZeroesDeadlines ==
    [][ZoneOffStep =>
         \A i \in ControlIndex : Controls'[i].deadline = 0]_vars

\* The part of C14 about the late replies alone.
LateReplyIsHarmless ==
    [][(Cancelled /\ ControlReplyStep) =>
         \A i \in ControlIndex :
            /\ Controls'[i].status = Controls[i].status
            /\ Controls'[i].deadline = Controls[i].deadline]_vars

\* The feed item of each zone of the configuration: lawn is fed by the
\* pump.
ZoneFeed == [name \in ZoneNames |-> IF name = "lawn" THEN "pump" ELSE ""]

\* C15: for a zone configured with a feed, the scheduling step that sends
\* the start request of a pulse has first called the feed activation with
\* the feed of the zone and the length of the pulse.
FeedBeforeZoneStart ==
    [][\A zone \in ZoneIndex :
          (/\ DispatchStep
           /\ Dispatched'.ok
           /\ Dispatched'.zone = zone
           /\ ZoneFeed[Zones[zone].name] # "")
             => feedPulse' = Dispatched'.pulse]_vars

\* The feeds that a chain goes through from the feed of that name, in
\* order, as far as n feeds.
RECURSIVE FeedChain(_, _)
FeedChain(name, n) ==
    IF n = 0 \/ name = "" \/ housesprinkler_feed_search(name) = 0
    THEN << >>
    ELSE LET feed == housesprinkler_feed_search(name) IN
         << feed >> \o FeedChain(Feed[feed].next, n - 1)

\* The chain from that name starts at a known feed and comes to an end.
FeedChainAcyclic(name) ==
    /\ housesprinkler_feed_search(name) # 0
    /\ Len(FeedChain(name, FeedCount + 1)) <= FeedCount

\* The calls of housesprinkler_control_start that a chain is due, for a
\* pulse.
RECURSIVE FeedChainStarts(_, _)
FeedChainStarts(chain, pulse) ==
    IF chain = << >> THEN << >>
    ELSE (IF Feed[Head(chain)].manual THEN << >>
          ELSE << [name |-> Feed[Head(chain)].name,
                   pulse |-> pulse + Feed[Head(chain)].linger] >>)
            \o FeedChainStarts(Tail(chain), pulse)

ActivateStep(config, manual) ==
    /\ Requests' # Requests
    /\ LastRequest'.name = config.name
    /\ LastRequest'.route = IF manual THEN "activate/manual" ELSE "activate"

\* The queue after the zones of the program were activated with that
\* index.
ActivatedWith(config, manual, index) ==
    ActivateZones(Queue, ProgramLoaded(config), index,
                  [program |-> config.name, manual |-> manual], 1, now)

\* The value of the season of that name at second t.
SeasonNow(name, t) ==
    SeasonValue(housesprinkler_program_season_find(name), t)

\* C17: when the value of the season of a program is 0 at the current date,
\* an activation that is not manual queues no zone, and a manual one queues
\* the zones with index 100, whatever the online index is.
SeasonZeroBlocksActivation ==
    [][\A config \in ProgramConfigs, manual \in BOOLEAN :
          (/\ ActivateStep(config, manual)
           /\ config.season # ""
           /\ SeasonNow(config.season, now) = 0)
             => Queue' = IF manual THEN ActivatedWith(config, manual, 100)
                         ELSE Queue]_vars

\* The online index was received within the last 24 hours.
IndexValid == ProgramIndexTimestamp > now - Day

\* The queues that C18 allows after an activation: with the online index
\* when it is valid (and has the higher priority), with the value of the
\* season otherwise, or 100 without a season.
ClaimedQueues(config, manual) ==
    (IF IndexValid THEN {ActivatedWith(config, manual, ProgramIndex)}
     ELSE {})
       \cup
    (IF config.season = "" THEN {ActivatedWith(config, manual, 100)}
     ELSE IF SeasonNow(config.season, now) # 0
          THEN {ActivatedWith(config, manual,
                              SeasonNow(config.season, now))}
          ELSE IF manual THEN {ActivatedWith(config, manual, 100)}
               ELSE {Queue})

\* C18: the index applied to the activation of a program is the online
\* index only when that index is valid (received within the last 24 hours)
\* and has a higher priority than the season of the program; otherwise it
\* is the value of the season, or 100 when the program has no season.
IndexOnlyWhenValid ==
    [][\A config \in ProgramConfigs, manual \in BOOLEAN :
          ActivateStep(config, manual)
             => Queue' \in ClaimedQueues(config, manual)]_vars

\* What the code does: the online index is applied for three days.
IndexValidThreeDays ==
    [][\A config \in ProgramConfigs, manual \in BOOLEAN :
          (ActivateStep(config, manual)
              /\ ProgramIndexTimestamp > now - (3 * Day))
             => Queue' = ActivatedWith(config, manual, ProgramIndex)]_vars

\* The request served by the step is /sprinkler/program/on for program i.
ProgramOnStep(i) ==
    /\ Requests' # Requests
    /\ LastRequest'.route = "program/on"
    /\ LastRequest'.name = Programs[i].name

\* C19: the activation of a program whose running flag is set is ignored:
\* no zone is queued and the runtime of every queue entry stays as it is.
RunningProgramNotActivated ==
    [][\A i \in ProgramIndexSet :
          (ProgramOnStep(i) /\ ProgramRunning[i]) => Queue' = Queue]_vars

\* The soaks that a queue entry still has to go through, and the time it
\* still takes with them.
Soaks(e) ==
    LET pulse == Zones[e.zone].pulse IN
    IF pulse = 0 THEN 0
    ELSE (e.runtime \div pulse) - (IF e.runtime % pulse = 0 THEN 1 ELSE 0)

Elapsed(e) == e.runtime + (Zones[e.zone].pause * Soaks(e))

\* Queue entry k has runtime left and may start at second t.
MayStart(k, t) ==
    /\ Queue[k].runtime > 0
    /\ Queue[k].nexton > 0
    /\ Queue[k].nexton <= t

\* C20: among the queue entries with runtime left that may start at the
\* current step, the scheduling step starts one with the smallest nexton,
\* and among those with that nexton the one with the largest elapsed time
\* (runtime + pause * soaks), not the one queued first.
LongestEntryFirst ==
    [][(DispatchStep /\ Dispatched'.ok) =>
         \E d \in 1 .. Len(Queue) :
            /\ Queue[d].zone = Dispatched'.zone
            /\ MayStart(d, now)
            /\ \A k \in 1 .. Len(Queue) :
                  MayStart(k, now) =>
                     \/ Queue[d].nexton < Queue[k].nexton
                     \/ /\ Queue[d].nexton = Queue[k].nexton
                        /\ Elapsed(Queue[d]) >= Elapsed(Queue[k])]_vars

\* The first half of C20 alone: the entry started has the smallest nexton.
SmallestNextonFirst ==
    [][(DispatchStep /\ Dispatched'.ok) =>
         \E d \in 1 .. Len(Queue) :
            /\ Queue[d].zone = Dispatched'.zone
            /\ MayStart(d, now)
            /\ \A k \in 1 .. Len(Queue) :
                  MayStart(k, now) => Queue[d].nexton <= Queue[k].nexton]_vars

\* The scheduling step has sent the start request of a zone whose queue
\* entry holds nothing but the runtime of /sprinkler/zone/on requests.
ManualDispatchStep(zone) ==
    /\ DispatchStep
    /\ Dispatched'.ok
    /\ Dispatched'.zone = zone
    /\ Dispatched'.origins = {ZoneRequest}

\* C21: a manual zone activation (the /sprinkler/zone/on route) is started
\* as one single pulse of its entire remaining runtime, whatever the pulse
\* and the pause of the zone are, which leaves runtime 0 and
\* nexton = now + pulse.
ManualRunsInOnePulse ==
    [][\A zone \in ZoneIndex :
          ManualDispatchStep(zone) =>
             LET before == Queue[QueuePosition(Queue, zone)]
                 after == Queue'[QueuePosition(Queue', zone)]
             IN /\ Dispatched'.pulse = before.runtime
                /\ after.origins = {ZoneRequest} =>
                      /\ after.runtime = 0
                      /\ after.nexton = now + Dispatched'.pulse]_vars

\* The request served by the step is /sprinkler/zone/on for that zone.
ZoneOnStep(zone) ==
    /\ Requests' # Requests
    /\ LastRequest'.route = "zone/on"
    /\ LastRequest'.name = Zones[zone].name

\* C22: for a zone flagged manual, an activation that comes from a program
\* leaves the queue without the zone, and a manual activation (the
\* /sprinkler/zone/on route) puts the zone in the queue.
ManualZoneServesRequests ==
    [][\A zone \in ZoneIndex :
          Zones[zone].manual =>
             IF ZoneOnStep(zone)
             THEN QueuePosition(Queue', zone) # 0
             ELSE QueuePosition(Queue', zone) # 0
                     => QueuePosition(Queue, zone) # 0]_vars

\* The first half of C22 alone: the activation of a program whose zones
\* include a manual zone leaves that zone out of the queue.
ProgramSkipsManualZone ==
    [][\A zone \in ZoneIndex, config \in ProgramConfigs,
          manual \in BOOLEAN :
          (Zones[zone].manual /\ ActivateStep(config, manual))
             => QueuePosition(Queue', zone) = 0]_vars

\* C23: housesprinkler_zone_idle is true exactly when the queue is empty,
\* or when no zone is in its pulse and no queue entry has runtime left.
ZoneIdleBetweenPulsesOnly ==
    housesprinkler_zone_idle(Queue)
       <=> \/ Queue = << >>
           \/ /\ \A zone \in ZoneIndex : ~InPulse(zone)
              /\ \A k \in 1 .. Len(Queue) : Queue[k].runtime = 0

\* The part of C23 that keeps a program from being reported complete: the
\* zones are not idle while an entry has runtime left.
ZoneBusyWhileRuntimeLeft ==
    (\E k \in 1 .. Len(Queue) : Queue[k].runtime > 0)
       => ~housesprinkler_zone_idle(Queue)

\* hs_background has run in this step.
BackgroundStep == LastCall' # LastCall

\* housesprinkler_schedule_periodic has evaluated the schedules in this
\* step.
ScheduleEvaluated ==
    /\ BackgroundStep
    /\ ScheduleLastMinute' # ScheduleLastMinute
    /\ RainDelay' = 0

\* The one-time schedule i became inactive in this step.
OneTimeCleared(i) ==
    OneTimeSchedules[i].start # 0 /\ OneTimeSchedules'[i].start = 0

\* C24: each one-time schedule launches its program at most once.  In a
\* call of hs_background an inactive entry stays inactive; an entry becomes
\* inactive only at an evaluation with start <= now, together with the
\* launch of its program at that second; an entry that stays active is not
\* modified, and when it was due at the evaluation its launch has returned
\* 0 (the program cannot be started), so that it is tried again at the
\* next evaluation; without a cleared entry or a recurring launch the
\* program of an entry is not launched.
OneTimeLaunchedOnce ==
    [][BackgroundStep =>
        /\ Len(OneTimeSchedules') = Len(OneTimeSchedules)
        /\ \A i \in 1 .. Len(OneTimeSchedules) :
              LET entry == OneTimeSchedules[i]
                  p == ProgramByName(entry.program)
              IN /\ entry.start = 0 => OneTimeSchedules'[i] = entry
                 /\ OneTimeCleared(i) =>
                       /\ ScheduleEvaluated
                       /\ entry.start <= now
                       /\ ProgramLaunched'[p] = now
                       /\ ProgramRunning'[p]
                 /\ ~OneTimeCleared(i) =>
                       /\ OneTimeSchedules'[i] = entry
                       /\ (ScheduleEvaluated /\ OneTimeDue(entry, now)) =>
                             ~StartScheduledOk(
                                 [ProgramRunning |-> ProgramRunning'],
                                 entry.program, now)
                 /\ ( /\ entry.start # 0
                      /\ \A k \in 1 .. Len(OneTimeSchedules) :
                            ~OneTimeCleared(k)
                      /\ ScheduleLastlaunch' = ScheduleLastlaunch ) =>
                       ProgramLaunched'[p] = ProgramLaunched[p]]_vars

\* The first of two one-time schedules for the same program has launched
\* it and is inactive; the second one was due at that evaluation and at the
\* next one, and is still active because the program was running.
OneTimeRetried ==
    /\ Len(OneTimeSchedules) = 2
    /\ OneTimeSchedules[1].start = 0
    /\ OneTimeSchedules[2].start = StartTime + 2
    /\ ProgramLaunched[ProgramByName("back")] = StartTime + 2
    /\ ScheduleLastMinute = << 6, 0 >>
    /\ LastCall = StartTime + 3

\* housesprinkler_schedule_again has added a one-time schedule in this step.
AgainStep ==
    /\ Requests' # Requests
    /\ LastRequest'.route = "again"
    /\ OneTimeSchedules' # OneTimeSchedules

\* The one-time schedule that housesprinkler_schedule_again has added.
AgainEntry ==
    OneTimeSchedules'[housesprinkler_schedule_new_onetime(OneTimeSchedules)]

\* C25: the one-time schedule that again(uuid) adds for an existing
\* schedule is for the same program and its stored start is never earlier
\* than now.
AgainStartNotInPast ==
    [][AgainStep =>
        /\ AgainEntry.program = Schedules[0].program
        /\ AgainEntry.start >= now]_vars

\* C25, the choice of the day: the start is today's occurrence of the
\* schedule's hour:minute when that is at least 70 s in the future, the
\* next day's otherwise.
AgainStartNextOccurrence ==
    [][AgainStep =>
        LET today == (now - (now % Day)) + (Schedules[0].hour * 3600)
                        + (Schedules[0].minute * 60)
        IN AgainEntry.start =
              IF today >= now + AgainMargin THEN today ELSE today + Day]_vars

\* housesprinkler_schedule_periodic has launched the program of the
\* recurring schedule i in this step.
ScheduleLaunchStep(i) == ScheduleLastlaunch'[i] # ScheduleLastlaunch[i]

\* The days counted since the latest launch of the schedule i or of its
\* program, at second t.
DaysSinceLaunch(i, t) ==
    (t - Max(ScheduleLastlaunch[i],
             housesprinkler_program_scheduled(ProgramLastlaunch,
                                              Schedules[i].program))
       + 21600) \div Day

\* C26: a recurring schedule whose configured interval is n > 1 fires at
\* now only if floor((now - max(lastlaunch, program last scheduled) + 21600)
\* / 86400) >= n, and two launches of it are at least n*86400 - 21600
\* seconds apart, for every configured n.
IntervalRespected ==
    [][\A i \in 0 .. (SchedulesCount - 1) :
          (ScheduleLaunchStep(i) /\ ConfiguredInterval[i] > 1) =>
              /\ DaysSinceLaunch(i, now) >= ConfiguredInterval[i]
              /\ ScheduleLastlaunch[i] # 0 =>
                    now - ScheduleLastlaunch[i] >=
                        (ConfiguredInterval[i] * Day) - 21600]_vars

\* C26 for the intervals that a char holds on every platform: the same
\* statement, for a configured n of 127 at most.
SmallIntervalRespected ==
    [][\A i \in 0 .. (SchedulesCount - 1) :
          ( /\ ScheduleLaunchStep(i)
            /\ ConfiguredInterval[i] > 1
            /\ ConfiguredInterval[i] <= 127 ) =>
              /\ DaysSinceLaunch(i, now) >= ConfiguredInterval[i]
              /\ ScheduleLastlaunch[i] # 0 =>
                    now - ScheduleLastlaunch[i] >=
                        (ConfiguredInterval[i] * Day) - 21600]_vars

\* The depot has published a valid state text in this step, and the
\* schedule module has restored from it.
RestoreStep ==
    /\ Requests' # Requests
    /\ LastRequest'.route = "depot"
    /\ JsonValid(PublicationText[LastRequest'.name])

\* The state text has on = true.
TextSaysOn(text) ==
    \E i \in 1 .. Len(text) :
        text[i].key = "on" /\ text[i].type = "bool" /\ text[i].value

\* The host that the state text names, in a set: empty when there is none.
TextHosts(text) ==
    {text[i].value : i \in {k \in 1 .. Len(text) : text[k].key = "host"}}

\* SprinklerOn agrees with the state text it was restored from.
RestoredFrom(on, text) ==
    /\ on => (TextSaysOn(text) /\ TextHosts(text) \subseteq {ThisHost})
    /\ ~(TextHosts(text) \subseteq {ThisHost}) => ~on

\* C27: after a restore, at startup or on a depot update, SprinklerOn is
\* true only if the restored state has on = true and its host is absent or
\* is this host; a state written by another host leaves the system OFF.
RestoreHonoursHost ==
    /\ RestoredFrom(SprinklerOn, BackupInText)
    /\ [][RestoreStep => RestoredFrom(SprinklerOn', BackupInText')]_vars

\* The depot has published a state with on = true written by another host,
\* and the system is OFF.
OtherHostSwitchedOff ==
    /\ LastRequest.route = "depot"
    /\ LastRequest.name = "other"
    /\ TextSaysOn(BackupInText)
    /\ TextHosts(BackupInText) = {"other"}
    /\ ~SprinklerOn

\* housesprinkler_state_periodic has run in this step.
PeriodicStep == LastCall' # LastCall

\* housesprinkler_state_periodic has called housesprinkler_state_save in
\* this step.
PeriodicSave ==
    /\ StateSaved' # StateSaved
    /\ StateSaved'.origin = "periodic"
    /\ StateSaved'.at = now

\* C28: after the state was marked dirty at second T, no save is attempted
\* during second T; every later tick attempts a save until one succeeds;
\* when none succeeds the dirty flag is cleared at the tick of T + 11 s at
\* the latest, so that at most 10 saves are attempted.
SaveDebouncedAndBounded ==
    [][PeriodicStep =>
        LET T == StateDataHasChanged IN
        /\ T = 0 => (~PeriodicSave /\ StateDataHasChanged' = 0)
        /\ (T # 0 /\ now <= T) =>
              (~PeriodicSave /\ StateDataHasChanged' = T)
        /\ (T # 0 /\ T < now /\ now <= T + 10) =>
              /\ PeriodicSave
              /\ StateDataHasChanged' =
                    IF StateSaved'.written = StateSaved'.size THEN 0 ELSE T
        /\ (T # 0 /\ now >= T + 11) =>
              (~PeriodicSave /\ StateDataHasChanged' = 0)]_vars

\* The state was dirty since the startup second, the saves of the ten
\* following seconds have failed and the flag was cleared at the eleventh.
SaveGivenUp ==
    /\ StateDataHasChanged = 0
    /\ StateSaved.origin = "periodic"
    /\ StateSaved.at = StartTime + 10
    /\ StateSaved.written # StateSaved.size
    /\ LastCall = StartTime + 11
    /\ Requests = 0

\* C29: whenever the depot publishes a valid state text D of length L, the
\* state in memory becomes D and, when the file could be written, the local
\* file holds exactly the L characters of D, whatever was published before.
PublicationWrittenThrough ==
    [][RestoreStep =>
        LET D == PublicationText[LastRequest'.name] IN
        /\ BackupInText' = D
        /\ StateSaved'.written = Chars(D) => BackupFile' = D]_vars

\* The state text that housesprinkler_state_format writes for the memory.
SavedText ==
    LET F == housesprinkler_state_format(Memory, BackupOutBufferSize)
    IN Take(F.BackupOutBuffer, F.cursor)

\* The memory after a restart that restores from the saved text.
RestoredMemory == housesprinkler_schedule_restore(FreshMemory, SavedText, now)

\* The one-time schedules that are active.
ActiveOneTime(entries) == SelectSeq(entries, LAMBDA e : e.start # 0)

\* C30: saving the state and restoring from the saved text reproduces the
\* values it was saved from: on/off, the rain delay deadline (0 when it has
\* expired), every active one-time schedule and the lastlaunch of every
\* schedule, matched by UUID.
SaveRestoreRoundTrip ==
    /\ RestoredMemory.SprinklerOn = SprinklerOn
    /\ RestoredMemory.RainDelay = (IF RainDelay < now THEN 0 ELSE RainDelay)
    /\ ActiveOneTime(RestoredMemory.OneTimeSchedules) =
          ActiveOneTime(OneTimeSchedules)
    /\ RestoredMemory.ScheduleLastlaunch = ScheduleLastlaunch

\* C30 without the lastlaunch of the schedules: on/off, the rain delay and
\* the one-time schedules are reproduced.
SaveRestoreKeepsSwitch ==
    /\ RestoredMemory.SprinklerOn = SprinklerOn
    /\ RestoredMemory.RainDelay = (IF RainDelay < now THEN 0 ELSE RainDelay)
    /\ ActiveOneTime(RestoredMemory.OneTimeSchedules) =
          ActiveOneTime(OneTimeSchedules)

\* The state text that holds the host and the whole fragment of the
\* schedule module for the memory m.
FullDocument(m) ==
    << OpenBrace, Unit("host", "string", ThisHost) >>
    \o housesprinkler_schedule_status(m) \o << CloseBrace >>

\* The text is a complete JSON object with the host and every member of the
\* schedule module's fragment for the memory m.
DocumentHolds(doc, m) ==
    /\ JsonValid(doc)
    /\ Len(doc) = Len(FullDocument(m))
    /\ \A i \in 1 .. Len(doc) : doc[i].key = FullDocument(m)[i].key
    /\ Len(JsonArray(doc, "once")) =
          Len(SelectSeq(m.OneTimeSchedules, LAMBDA e : e.start # 0))

\* C31: every document that a state save writes to the local file or
\* publishes to the depot is a complete JSON object holding the host and
\* the full fragment of every registered worker; a fragment that does not
\* fit makes the buffer grow, and no truncated or partial document is
\* written or published.
SavedDocumentComplete ==
    [][PeriodicSave =>
        DocumentHolds(Take(BackupOutBuffer', StateSaved'.size), Memory)]_vars

\* sprinkler_config has served a POST in this step.
ConfigStep ==
    /\ Requests' # Requests
    /\ LastRequest'.route = "config"

\* The zone, program and schedule tables and the queue are those of before.
TablesKept ==
    UNCHANGED << Zones, ZoneStatus, ZoneServer, ServerStatus, Queue,
                 ProgramRunning, ProgramLastlaunch, ScheduleInterval,
                 Controls >>

\* C32: when a configuration POST is rejected (invalid string, JSON parse
\* error or file write failure), the configuration in memory, text and
\* parsed tree, is still the one in effect before the POST, and no refresh
\* of the dependent tables is applied.
RejectedPostKeepsConfig ==
    [][(ConfigStep /\ LastRequest'.name # "") =>
        /\ ConfigText' = ConfigText
        /\ ConfigParsed' = ConfigParsed
        /\ TablesKept]_vars

\* C39: after a configuration reload the queue is empty and the active
\* zone reference that the next scheduling step uses does not designate a
\* zone record of the previous table, also when the reload happens during
\* a pulse.
ReloadLeavesNoStaleZone ==
    [][(ConfigStep /\ LastRequest'.name = "") =>
        /\ Queue' = << >>
        /\ ~ZoneActiveFreed']_vars

\* A reply to a start request was handled in this step, and it was not a
\* redirection.
StartReplyStep ==
    /\ ZoneRequests' # ZoneRequests
    /\ LastReply'.status # 302
    /\ LastReply'.target # 0

\* C33: when the reply to a start command has, after redirect resolution,
\* an HTTP status other than 200, the status of the started point becomes
\* 'e' and the point is not reported as 'a' on account of that reply.
FailedStartSetsError ==
    [][(StartReplyStep /\ LastReply'.status # 200) =>
        ZoneStatus'[LastReply'.target] = "e"]_vars

\* C34: after any sequence of replies of the index servers, the current
\* watering index lies within the limits [min, max] of the server it was
\* received from (0 and 150 if the configuration provides none).
IndexWithinLimits ==
    SprinklerIndexOrigin # 0 =>
       /\ SprinklerIndex >= IndexServers[SprinklerIndexOrigin].adjust[1]
       /\ SprinklerIndex <= IndexServers[SprinklerIndexOrigin].adjust[2]

RECURSIVE SumOf(_)
SumOf(pulses) ==
    IF pulses = << >> THEN 0 ELSE Head(pulses) + SumOf(Tail(pulses))

\* The smallest number of pulses of at most P seconds that cover R seconds.
PulsesFor(R, P) == (R + P - 1) \div P

\* C35: a zone with pulse P > 0 that was activated once, for a runtime
\* R > 0, is started for pulses of at most P seconds each, which sum with the
\* runtime left in the queue to exactly R; when no runtime is left, the zone
\* was started exactly ceil(R / P) times.
PulsesCoverRuntime ==
    \A zone \in ZoneIndex :
       (ZonePulses[zone].activations = 1 /\ Zones[zone].pulse > 0) =>
          LET R == ZonePulses[zone].total
              P == Zones[zone].pulse
              pulses == ZonePulses[zone].pulses
              left == QueueRuntime(Queue, zone)
          IN /\ \A i \in 1 .. Len(pulses) :
                   pulses[i] > 0 /\ pulses[i] <= P
             /\ SumOf(pulses) + left = R
             /\ Len(pulses) <= PulsesFor(R, P)
             /\ left = 0 => Len(pulses) = PulsesFor(R, P)

\* A zone activated once for more than two of its pulses was started for
\* all of its runtime.
PulsesCoverRuntimeWitness ==
    \E zone \in ZoneIndex :
       /\ ZonePulses[zone].activations = 1
       /\ Zones[zone].pulse > 0
       /\ ZonePulses[zone].total > 2 * Zones[zone].pulse
       /\ QueueRuntime(Queue, zone) = 0
       /\ Len(ZonePulses[zone].pulses) = 3

\* C36: with pulses and pauses that are not negative, once the activations
\* have ceased and while hs_background is called in every second, every
\* runtime reaches 0 and every entry is pruned: the queue becomes empty and
\* stays so, whether the start commands succeed or not.
QueueDrains == <>[](Queue = << >>)

\* The queue is empty again after starts that failed and starts that
\* succeeded.
QueueDrainsWitness ==
    /\ Queue = << >>
    /\ \E zone \in ZoneIndex : Len(ZonePulses[zone].pulses) >= 2
    /\ \E zone \in ZoneIndex :
          ZoneRequests[zone] < Len(ZonePulses[zone].pulses)
    /\ \E zone \in ZoneIndex : ZoneLastOn[zone] # NoStart

\* C37: while the seconds pass, no control point stays 'a' forever: a point
\* that was started leaves 'a' once its deadline has passed, and a point
\* that was cancelled does not remain 'a', also when a request could not be
\* sent.  A deadline is followed when it falls within the seconds that the
\* clock covers.
ActiveControlEnds ==
    \A i \in 1 .. 2 :
       (/\ i \in ControlIndex
        /\ Controls[i].status = "a"
        /\ Controls[i].deadline < StartTime + MaxTicks)
          ~> (Controls[i].status # "a")

\* C38: housesprinkler_schedule_restore returns for every state text,
\* whatever the number of its one-time schedules and their start times: the
\* program is never in the loop over .once at an element that the loop
\* does not leave.
RestoreEnds == RestoreLoop = 0

\* C40: while the rain delay feature is disabled, the deadline of the rain
\* delay is 0, so that it blocks no evaluation of the schedules, whatever
\* the requests that set the delay or enable and disable the feature and
\* whatever state was restored.
DisabledRainDelayIsZero == ~RainDelayEnabled => RainDelay = 0

====
